---- MODULE Spec2Model ----
(***************************************************************************)
(* Model of pf-docs: the SQLite/FTS5 search index (lib/index.ts), the text *)
(* normaliser (lib/markdown.ts) and the commands built on them.            *)
(*                                                                         *)
(* Text is modelled as a sequence of one-character strings, so that        *)
(* tokenising, prefix matching, LIKE matching and path construction are    *)
(* computed the way the program computes them.                             *)
(***************************************************************************)
EXTENDS Integers, Sequences, FiniteSets, TLC

VARIABLES
  code,        \* which version of lib/index.ts the process runs: "v1" | "v2"
  db,          \* the module-level connection handle: "null" | "open"
  docsSchema,  \* table docs: "none" | "v1" (no source column) | "v2"
  ftsSchema,   \* virtual table docs_fts: "none" | "v1" (no source column) | "v2"
  triggers,    \* triggers docs_ai/docs_ad/docs_au: "none" | "v1" | "v2"
  docs,        \* rows of table docs
  fts,         \* entries of the full-text index of docs_fts
  last         \* the last library call: its inputs and its outcome

vars == <<code, db, docsSchema, ftsSchema, triggers, docs, fts, last>>

-----------------------------------------------------------------------------
(* Characters and strings *)

LowerCase == <<"a","b","c","d","e","f","g","h","i","j","k","l","m",
               "n","o","p","q","r","s","t","u","v","w","x","y","z">>
UpperCase == <<"A","B","C","D","E","F","G","H","I","J","K","L","M",
               "N","O","P","Q","R","S","T","U","V","W","X","Y","Z">>
Digit == {"0","1","2","3","4","5","6","7","8","9"}

Range(f) == {f[i] : i \in DOMAIN f}

IsUpper(c) == c \in Range(UpperCase)
IsLower(c) == c \in Range(LowerCase)
Lower(c) == IF IsUpper(c) THEN LowerCase[CHOOSE i \in 1..26 : UpperCase[i] = c] ELSE c
Upper(c) == IF IsLower(c) THEN UpperCase[CHOOSE i \in 1..26 : LowerCase[i] = c] ELSE c

\* \s of a JavaScript regular expression, over the alphabet of the model
SpaceChars == {" ", "\n", "\t"}
IsSpace(c) == c \in SpaceChars
\* \w of a JavaScript regular expression
WordChars == Range(UpperCase) \cup Range(LowerCase) \cup Digit \cup {"_"}
\* a token character of FTS5's default unicode61 tokenizer
IsTokenChar(c) == IsUpper(c) \/ IsLower(c) \/ c \in Digit

StartsWith(s, p) == Len(p) <= Len(s) /\ SubSeq(s, 1, Len(p)) = p
EndsWith(s, p) == Len(p) <= Len(s) /\ SubSeq(s, Len(s) - Len(p) + 1, Len(s)) = p
\* s has p at position i
HasAt(s, i, p) == i >= 1 /\ i + Len(p) - 1 <= Len(s) /\ SubSeq(s, i, i + Len(p) - 1) = p
Drop(s, n) == SubSeq(s, n + 1, Len(s))

RECURSIVE Join(_, _)
Join(parts, sep) ==
  IF parts = <<>> THEN <<>>
  ELSE IF Len(parts) = 1 THEN parts[1]
  ELSE LET h == Len(parts) \div 2
       IN Join(SubSeq(parts, 1, h), sep) \o sep \o Join(SubSeq(parts, h + 1, Len(parts)), sep)

\* the maximal runs of characters outside seps (split on seps, empty parts dropped)
RECURSIVE SplitAcc(_, _, _, _)
SplitAcc(s, seps, cur, acc) ==
  IF s = <<>> THEN (IF cur = <<>> THEN acc ELSE Append(acc, cur))
  ELSE IF Head(s) \in seps
       THEN SplitAcc(Tail(s), seps, <<>>, IF cur = <<>> THEN acc ELSE Append(acc, cur))
       ELSE SplitAcc(Tail(s), seps, Append(cur, Head(s)), acc)

\* String.prototype.trim
RECURSIVE TrimLeft(_)
TrimLeft(s) == IF s # <<>> /\ IsSpace(Head(s)) THEN TrimLeft(Tail(s)) ELSE s
RECURSIVE TrimRight(_)
TrimRight(s) ==
  IF s # <<>> /\ IsSpace(s[Len(s)]) THEN TrimRight(SubSeq(s, 1, Len(s) - 1)) ELSE s
Trim(s) == TrimRight(TrimLeft(s))

\* the least / greatest element of a set of positions, 0 when it is empty
MinOr0(S) == IF S = {} THEN 0 ELSE CHOOSE i \in S : \A j \in S : i <= j
MaxOr0(S) == IF S = {} THEN 0 ELSE CHOOSE i \in S : \A j \in S : i >= j
\* the end (inclusive) of the maximal run of characters of class C that starts at
\* position i; i-1 when the run is empty
RunEnd(s, i, C) ==
  LET stop == MinOr0({j \in i..Len(s) : s[j] \notin C})
  IN IF stop = 0 THEN Len(s) ELSE stop - 1
\* the same for the characters outside C
RunEndNot(s, i, C) ==
  LET stop == MinOr0({j \in i..Len(s) : s[j] \in C})
  IN IF stop = 0 THEN Len(s) ELSE stop - 1

-----------------------------------------------------------------------------
(* FTS5: the unicode61 tokenizer and the MATCH of a quoted prefix phrase *)

\* the tokens of s, in order: the maximal runs of token characters, case folded
Tokenize(s) ==
  LET IsStart(i) == IsTokenChar(s[i]) /\ (i = 1 \/ ~IsTokenChar(s[i - 1]))
      Folded(t) == [j \in 1..Len(t) |-> Lower(t[j])]
      Tokens(starts) ==
        [k \in 1..Len(starts) |->
           Folded(SubSeq(s, starts[k], RunEnd(s, starts[k], WordChars \ {"_"})))]
  IN Tokens(SelectSeq([i \in 1..Len(s) |-> i], IsStart))

\* "t1 t2 .. tn"* : t1..t(n-1) as consecutive tokens, then a token that starts with tn
PhraseMatch(ph, toks) ==
  \E i \in 1..(Len(toks) - Len(ph) + 1) :
     /\ \A j \in 1..(Len(ph) - 1) : toks[i + j - 1] = ph[j]
     /\ StartsWith(toks[i + Len(ph) - 1], ph[Len(ph)])

-----------------------------------------------------------------------------
(* SQLite: x LIKE pattern ('%' any run, '_' any character, ASCII case folded) *)

RECURSIVE Like(_, _)
Like(p, s) ==
  IF p = <<>> THEN s = <<>>
  ELSE IF Head(p) = "%" THEN \E j \in 0..Len(s) : Like(Tail(p), Drop(s, j))
  ELSE IF s = <<>> THEN FALSE
  ELSE IF Head(p) = "_" THEN Like(Tail(p), Tail(s))
  ELSE Lower(Head(p)) = Lower(Head(s)) /\ Like(Tail(p), Tail(s))

-----------------------------------------------------------------------------
(* lib/markdown.ts: title extraction and DocC clean-up                      *)

\* the result of String.prototype.match with one group: null, or the group
NoMatch == [ok |-> FALSE, val |-> <<>>]
Matched(v) == [ok |-> TRUE, val |-> v]

\* the backquote character (a string literal of TLA+ cannot hold it)
BQ == "BQ"
BT2 == <<BQ, BQ>>
QuoteChars == {"'", "\""}

\* positions where ^ matches under the m flag
LineStarts(s) == {i \in 1..Len(s) : i = 1 \/ s[i - 1] = "\n"}

\* /^#\s+``([^`]+)``/m tried at line start i: the group's (first, last), or <<0, 0>>
DoccTitleAt(s, i) ==
  IF ~(s[i] = "#" /\ i < Len(s) /\ IsSpace(s[i + 1])) THEN <<0, 0>>
  ELSE LET w == RunEnd(s, i + 1, SpaceChars)
           g == w + 3
           e == RunEndNot(s, g, {BQ})
       IN IF HasAt(s, w + 1, BT2) /\ e >= g /\ HasAt(s, e + 1, BT2)
          THEN <<g, e>> ELSE <<0, 0>>

\* /^#\s+(.+)$/m tried at line start i: \s+ is greedy and gives characters back
\* until (.+) finds a character that is not a line break
H1TitleAt(s, i) ==
  IF ~(s[i] = "#" /\ i < Len(s) /\ IsSpace(s[i + 1])) THEN <<0, 0>>
  ELSE LET k == RunEnd(s, i + 1, SpaceChars) + 1
           hi == IF k <= Len(s) THEN k ELSE Len(s)
           p == MaxOr0({q \in (i + 2)..hi : s[q] # "\n"})
       IN IF p = 0 THEN <<0, 0>> ELSE <<p, RunEndNot(s, p, {"\n"})>>

TITLE_KEY == <<"t", "i", "t", "l", "e", ":">>
DASH3 == <<"-", "-", "-">>

\* /^---\s*\n.*?title:\s*(.+?)\n.*?---/s : the ways the pattern can match, as
\* (n1, t, g, e): the line break at n1 ends the opening line, title: stands at t,
\* the group is s[g..e-1] and the line break at e ends it
YamlMatches(s) ==
  IF ~StartsWith(s, DASH3) THEN {}
  ELSE LET w == RunEnd(s, 4, SpaceChars)
       IN {m \in (4..w) \X (1..Len(s)) \X (1..Len(s)) \X (1..Len(s)) :
             /\ s[m[1]] = "\n"
             /\ m[2] > m[1] /\ HasAt(s, m[2], TITLE_KEY)
             /\ m[3] >= m[2] + 6 /\ m[3] <= RunEnd(s, m[2] + 6, SpaceChars) + 1
             /\ m[4] = MinOr0({e \in (m[3] + 1)..Len(s) : s[e] = "\n"})
             /\ m[4] # 0
             /\ \E d \in (m[4] + 1)..Len(s) : HasAt(s, d, DASH3)}

\* the match the backtracking search finds first: \s* greedy (latest n1), .*? lazy
\* (earliest title:), \s* greedy (latest g)
YamlFirst(s) ==
  LET M == YamlMatches(s)
      n1 == MaxOr0({m[1] : m \in M})
      t == MinOr0({m[2] : m \in {x \in M : x[1] = n1}})
      g == MaxOr0({m[3] : m \in {x \in M : x[1] = n1 /\ x[2] = t}})
  IN CHOOSE m \in M : m[1] = n1 /\ m[2] = t /\ m[3] = g

\* .replace(/^["']|["']$/g, "")
StripQuotes(s) ==
  LET a == IF s # <<>> /\ s[1] \in QuoteChars THEN 2 ELSE 1
      b == IF Len(s) >= a /\ s[Len(s)] \in QuoteChars THEN Len(s) - 1 ELSE Len(s)
  IN SubSeq(s, a, b)

extractTitle(content) ==
  LET docc == {i \in LineStarts(content) : DoccTitleAt(content, i) # <<0, 0>>}
      h1 == {i \in LineStarts(content) : H1TitleAt(content, i) # <<0, 0>>}
  IN IF docc # {}
     THEN LET m == DoccTitleAt(content, MinOr0(docc)) IN Matched(SubSeq(content, m[1], m[2]))
     ELSE IF h1 # {}
     THEN LET m == H1TitleAt(content, MinOr0(h1)) IN Matched(Trim(SubSeq(content, m[1], m[2])))
     ELSE IF YamlMatches(content) # {}
     THEN LET m == YamlFirst(content)
          IN Matched(StripQuotes(Trim(SubSeq(content, m[3], m[4] - 1))))
     ELSE NoMatch

\* /@\w+\s*\{[^}]*\}/ tried at the head of s: the index of the closing brace, or 0
DirectiveEnd(s) ==
  IF s = <<>> \/ Head(s) # "@" THEN 0
  ELSE LET w == RunEnd(s, 2, WordChars)
           sp == RunEnd(s, w + 1, SpaceChars)
           c == RunEndNot(s, sp + 2, {"}"})
       IN IF w >= 2 /\ HasAt(s, sp + 1, <<"{">>) /\ c + 1 <= Len(s) THEN c + 1 ELSE 0

RECURSIVE StripDirectives(_)
StripDirectives(s) ==
  IF s = <<>> THEN <<>>
  ELSE LET e == DirectiveEnd(s)
       IN IF e > 0 THEN StripDirectives(Drop(s, e))
          ELSE <<Head(s)>> \o StripDirectives(Tail(s))

\* .replace(/``([^`]+)``/g, "$1")
RECURSIVE UnwrapSymbols(_)
UnwrapSymbols(s) ==
  IF s = <<>> THEN <<>>
  ELSE LET e == RunEndNot(s, 3, {BQ})
       IN IF StartsWith(s, BT2) /\ e >= 3 /\ HasAt(s, e + 1, BT2)
          THEN SubSeq(s, 3, e) \o UnwrapSymbols(Drop(s, e + 2))
          ELSE <<Head(s)>> \o UnwrapSymbols(Tail(s))

DOC_OPEN == <<"<", "d", "o", "c", ":">>

\* .replace(/<doc:([^>]+)>/g, "[$1]")
RECURSIVE RewriteLinks(_)
RewriteLinks(s) ==
  IF s = <<>> THEN <<>>
  ELSE LET e == RunEndNot(s, 6, {">"})
       IN IF StartsWith(s, DOC_OPEN) /\ e >= 6 /\ e + 1 <= Len(s)
          THEN <<"[">> \o SubSeq(s, 6, e) \o <<"]">> \o RewriteLinks(Drop(s, e + 1))
          ELSE <<Head(s)>> \o RewriteLinks(Tail(s))

\* (Row|Column|Image|Video|Links|TabNavigator|Tab), in the order the alternation tries them
LayoutNames ==
  << <<"R","o","w">>, <<"C","o","l","u","m","n">>, <<"I","m","a","g","e">>,
     <<"V","i","d","e","o">>, <<"L","i","n","k","s">>,
     <<"T","a","b","N","a","v","i","g","a","t","o","r">>, <<"T","a","b">> >>

\* /@(Row|...|Tab)\s*(\{[^}]*\})?/ tried at the head of s: the last index matched, or 0
LayoutEnd(s) ==
  IF s = <<>> \/ Head(s) # "@" THEN 0
  ELSE LET hits == {n \in 1..Len(LayoutNames) : HasAt(s, 2, LayoutNames[n])}
       IN IF hits = {} THEN 0
          ELSE LET nameEnd == 1 + Len(LayoutNames[MinOr0(hits)])
                   sp == RunEnd(s, nameEnd + 1, SpaceChars)
                   c == RunEndNot(s, sp + 2, {"}"})
               IN IF HasAt(s, sp + 1, <<"{">>) /\ c + 1 <= Len(s) THEN c + 1 ELSE sp

RECURSIVE StripLayout(_)
StripLayout(s) ==
  IF s = <<>> THEN <<>>
  ELSE LET e == LayoutEnd(s)
       IN IF e > 0 THEN StripLayout(Drop(s, e))
          ELSE <<Head(s)>> \o StripLayout(Tail(s))

\* .replace(/\n{3,}/g, "\n\n")
RECURSIVE CollapseBlankLines(_)
CollapseBlankLines(s) ==
  IF s = <<>> THEN <<>>
  ELSE LET e == RunEnd(s, 1, {"\n"})
       IN IF e >= 3 THEN <<"\n", "\n">> \o CollapseBlankLines(Drop(s, e))
          ELSE <<Head(s)>> \o CollapseBlankLines(Tail(s))

cleanMarkdown(content) ==
  Trim(CollapseBlankLines(StripLayout(RewriteLinks(UnwrapSymbols(StripDirectives(content))))))

-----------------------------------------------------------------------------
(* path helpers of node and the title helpers of lib/index.ts               *)

\* path.basename(file, ext)
basename(file, ext) ==
  LET slash == MaxOr0({i \in 1..Len(file) : file[i] = "/"})
      base == Drop(file, slash)
  IN IF base # ext /\ EndsWith(base, ext)
     THEN SubSeq(base, 1, Len(base) - Len(ext)) ELSE base

EXT_MD == <<".", "m", "d">>
EXT_SWIFT == <<".", "s", "w", "i", "f", "t">>

\* file.replace(/\.md$/, "")
StripMd(file) ==
  IF EndsWith(file, EXT_MD) THEN SubSeq(file, 1, Len(file) - 3) ELSE file

SwiftKeywords ==
  { <<"s","t","r","u","c","t">>, <<"c","l","a","s","s">>, <<"e","n","u","m">>,
    <<"a","c","t","o","r">> }

\* /(?:struct|class|enum|actor)\s+(\w+)/ tried at position i: the group's (first, last)
SwiftDeclAt(s, i) ==
  LET kws == {k \in SwiftKeywords : HasAt(s, i, k)}
  IN IF kws = {} THEN <<0, 0>>
     ELSE LET k == CHOOSE k \in kws : TRUE
              sp == RunEnd(s, i + Len(k), SpaceChars)
              w == RunEnd(s, sp + 1, WordChars)
          IN IF sp >= i + Len(k) /\ w >= sp + 1 THEN <<sp + 1, w>> ELSE <<0, 0>>

extractSwiftTitle(content) ==
  LET at == MinOr0({i \in 1..Len(content) : SwiftDeclAt(content, i) # <<0, 0>>})
  IN IF at = 0 THEN NoMatch
     ELSE LET m == SwiftDeclAt(content, at) IN Matched(SubSeq(content, m[1], m[2]))

\* String.prototype.split(sep): the parts between separators, empty parts kept
\* (cur: characters in front of s that belong to its first part)
SplitKeep(s, sep, cur) ==
  LET t == cur \o s
      IsCut(i) == i > Len(cur) /\ t[i] = sep
      Parts(cuts) ==
        [k \in 1..(Len(cuts) + 1) |->
           SubSeq(t, IF k = 1 THEN 1 ELSE cuts[k - 1] + 1,
                     IF k > Len(cuts) THEN Len(t) ELSE cuts[k] - 1)]
  IN Parts(SelectSeq([i \in 1..Len(t) |-> i], IsCut))

\* parseInt(digits, 10) printed back by the template string: no leading zeros
RECURSIVE StripZeros(_)
StripZeros(d) == IF Len(d) > 1 /\ Head(d) = "0" THEN StripZeros(Tail(d)) ELSE d

\* word.charAt(0).toUpperCase() + word.slice(1)
Capitalize(word) == IF word = <<>> THEN <<>> ELSE <<Upper(Head(word))>> \o Tail(word)

formatEpisodeName(dirName) ==
  LET d == RunEnd(dirName, 1, Digit)
      rest == Drop(dirName, d + 1)
  IN IF d >= 1 /\ HasAt(dirName, d + 1, <<"-">>) /\ rest # <<>>
        /\ \A i \in 1..Len(rest) : rest[i] # "\n"
     THEN LET words == SplitKeep(rest, "-", <<>>)
          IN <<"E", "p">> \o StripZeros(SubSeq(dirName, 1, d)) \o <<":", " ">>
             \o Join([i \in 1..Len(words) |-> Capitalize(words[i])], <<" ">>)
     ELSE dirName

-----------------------------------------------------------------------------
(* config.ts: the sources, and the files the model puts under data/repos    *)

DOCS == <<"d","o","c","s">>
EXAMPLES == <<"e","x","a","m","p","l","e","s">>
EPISODES == <<"e","p","i","s","o","d","e","s">>
ALL == <<"a","l","l">>
SOURCE_TYPES == <<DOCS, EXAMPLES, EPISODES>>

TCA == <<"t","c","a">>
NAVIGATION == <<"n","a","v","i","g","a","t","i","o","n">>

\* LIBRARIES, cut down to a library with one documentation root and one with two
LIBRARIES ==
  << [name |-> "swift-composable-architecture", shortName |-> TCA,
      docsPaths |-> <<"Sources/ComposableArchitecture/Documentation.docc">>],
     [name |-> "swift-navigation", shortName |-> NAVIGATION,
      docsPaths |-> <<"Sources/SwiftNavigation/Documentation.docc",
                      "Sources/SwiftUINavigation/Documentation.docc">>] >>

\* EXAMPLES_CONFIG, cut down to one example app
EXAMPLES_CONFIG ==
  [name |-> "tca-examples", shortName |-> EXAMPLES,
   paths |-> << <<"E","x","a","m","p","l","e","s","/","T","o","d","o","s">> >>,
   filePatterns |-> <<"**/*.swift">>]

EPISODES_CONFIG ==
  [name |-> "episode-code-samples", shortName |-> EPISODES,
   filePatterns |-> <<"**/*.swift", "**/*.playground/**/*.swift">>]

Absent == <<"<absent>">>

A_MD == <<"A",".","m","d">>
B_MD == <<"B",".","m","d">>
F_SWIFT == <<"f",".","s","w","i","f","t">>
EP_DIR == <<"0","0","0","1","-","a","b">>
PLAYGROUND == <<".","p","l","a","y","g","r","o","u","n","d">>

\* a file of a repository: the repository, the root inside it (a documentation
\* root, an example app, an episode directory) and the path below that root
TcaA == [repo |-> "swift-composable-architecture",
         root |-> "Sources/ComposableArchitecture/Documentation.docc", file |-> A_MD]
TcaB == [repo |-> "swift-composable-architecture",
         root |-> "Sources/ComposableArchitecture/Documentation.docc", file |-> B_MD]
ExF == [repo |-> "tca-examples", root |-> EXAMPLES_CONFIG.paths[1], file |-> F_SWIFT]
EpF == [repo |-> "episode-code-samples", root |-> EP_DIR, file |-> F_SWIFT]
\* a file of a playground of the episode: both patterns of
\* EPISODES_CONFIG.filePatterns select it
EpP == [repo |-> "episode-code-samples", root |-> EP_DIR,
        file |-> <<"P">> \o PLAYGROUND \o <<"/">> \o F_SWIFT]

DiskFiles == {TcaA, TcaB, ExF, EpF, EpP}

\* the contents upstream can give each file
Versions(f) ==
  IF f = TcaA THEN { <<"#"," ","H","i","\n","o","l","d"," ","x">>,
                     <<"#"," ","H","i","\n","n","e","w"," ","x">> }
  ELSE IF f = TcaB THEN { <<"b"," ","x">> }
  ELSE IF f = ExF THEN { <<"e","n","u","m"," ","F","o","o"," ","x">> }
  ELSE IF f = EpP THEN { <<"v","a","r"," ","x">> }
  ELSE { <<"l","e","t"," ","x">> \o [i \in 1..50 |-> "\n"] }

\* the order in which glob.sync lists the files of the model
FileOrder == <<TcaA, TcaB, ExF, EpF, EpP>>

\* whether the glob pattern selects the relative path (dot files are not matched)
GlobMatch(pattern, file) ==
  LET base == basename(file, <<>>)
      dirs == {i \in 1..Len(file) : file[i] = "/" /\ i > Len(PLAYGROUND) + 1
                  /\ HasAt(file, i - Len(PLAYGROUND), PLAYGROUND)
                  /\ file[i - Len(PLAYGROUND) - 1] # "/"}
  IN /\ Head(base) # "."
     /\ CASE pattern = "**/*.md" -> EndsWith(base, EXT_MD)
          [] pattern = "**/*.swift" -> EndsWith(base, EXT_SWIFT)
          [] pattern = "**/*.playground/**/*.swift" -> EndsWith(base, EXT_SWIFT) /\ dirs # {}
          [] OTHER -> FALSE

\* glob.sync(pattern, { cwd: root }) on the files of dsk
Glob(dsk, repo, root, pattern) ==
  SelectSeq(FileOrder, LAMBDA f : f.repo = repo /\ f.root = root /\ dsk[f] # Absent
                                   /\ GlobMatch(pattern, f.file))

\* glob.sync("[0-9][0-9][0-9][0-9]-*", { cwd: episodesPath })
IsEpisodeDir(d) ==
  Len(d) >= 5 /\ (\A i \in 1..4 : d[i] \in Digit) /\ d[5] = "-"

RECURSIVE Dedup(_)
Dedup(q) ==
  IF q = <<>> THEN <<>>
  ELSE LET r == Dedup(SubSeq(q, 1, Len(q) - 1))
       IN IF \E i \in 1..Len(r) : r[i] = q[Len(q)] THEN r ELSE Append(r, q[Len(q)])

EpisodeDirs(dsk) ==
  LET present == SelectSeq(FileOrder, LAMBDA f : f.repo = EPISODES_CONFIG.name
                                         /\ dsk[f] # Absent /\ IsEpisodeDir(f.root))
  IN Dedup([i \in 1..Len(present) |-> present[i].root])

RECURSIVE Flatten(_)
Flatten(qq) == IF qq = <<>> THEN <<>> ELSE Head(qq) \o Flatten(Tail(qq))

-----------------------------------------------------------------------------
(* lib/index.ts: the store                                                  *)

\* rowid of the next INSERT: one more than the largest rowid of the table
MaxRowId(rows) == MaxOr0({r.id : r \in rows})

\* what the FTS5 index keeps of a row: its rowid and the tokens of each column
\* of docs_fts (title, content, library, path and, from v2 on, source)
FtsEntry(row, schema) ==
  LET base == [rowid |-> row.id, title |-> Tokenize(row.title),
               content |-> Tokenize(row.content), library |-> Tokenize(row.library),
               path |-> Tokenize(row.path)]
  IN IF schema = "v2"
     THEN [rowid |-> base.rowid, title |-> base.title, content |-> base.content,
           library |-> base.library, path |-> base.path, source |-> Tokenize(row.source)]
     ELSE base

\* A variant the claims are tried against: the column added without its default
\* (ALTER TABLE docs ADD COLUMN source TEXT), which leaves NULL in the old rows
AddSourceColumnNull(rows) ==
  {[id |-> r.id, library |-> r.library, path |-> r.path, title |-> r.title,
    content |-> r.content, source |-> <<"NULL">>] : r \in rows}

\* ALTER TABLE docs ADD COLUMN source TEXT NOT NULL DEFAULT 'docs'
AddSourceColumn(rows) ==
  {[id |-> r.id, library |-> r.library, path |-> r.path, title |-> r.title,
    content |-> r.content, source |-> DOCS] : r \in rows}

\* the schema after openIndex of the current version has run its statements
\* (CREATE ... IF NOT EXISTS keeps a table that exists, with the columns it has)
OpenedV2(st) ==
  LET d0 == IF st.docsSchema = "none" THEN "v2" ELSE st.docsSchema
      f0 == IF st.ftsSchema = "none" THEN "v2" ELSE st.ftsSchema
  IN [docsSchema |-> "v2", ftsSchema |-> f0, triggers |-> "v2",
      docs |-> IF d0 = "v1" THEN AddSourceColumn(st.docs) ELSE st.docs,
      fts |-> st.fts]

\* the same for the earlier version (src/lib/index.ts): CREATE TRIGGER IF NOT EXISTS
OpenedV1(st) ==
  [docsSchema |-> IF st.docsSchema = "none" THEN "v1" ELSE st.docsSchema,
   ftsSchema |-> IF st.ftsSchema = "none" THEN "v1" ELSE st.ftsSchema,
   triggers |-> IF st.triggers = "none" THEN "v1" ELSE st.triggers,
   docs |-> st.docs, fts |-> st.fts]

Store == [docsSchema |-> docsSchema, ftsSchema |-> ftsSchema, triggers |-> triggers,
          docs |-> docs, fts |-> fts]

\* openIndex(): a connection that is already open is returned as it is
Opened(st) ==
  IF db = "open" THEN st ELSE IF code = "v2" THEN OpenedV2(st) ELSE OpenedV1(st)

\* db.prepare of the INSERT OR REPLACE needs the table docs and compiles the
\* triggers of docs with it: the v2 triggers name the column source of docs_fts
PrepareInsertFails(st) ==
  st.docsSchema = "none" \/ (st.triggers = "v2" /\ st.ftsSchema # "v2")

\* PRAGMA recursive_triggers is off (the default; the program never sets it): the
\* rows that REPLACE removes to satisfy UNIQUE(library, path) fire no docs_ad
ReplaceFiresDelete == FALSE

\* A variant the claims are tried against: docs without UNIQUE(library, path),
\* where INSERT OR REPLACE finds no row to replace
UpsertNoUnique(st, row) ==
  LET new == IF st.docsSchema = "v2"
             THEN [id |-> MaxRowId(st.docs) + 1, library |-> row.library,
                   path |-> row.path, title |-> row.title, content |-> row.content,
                   source |-> row.source]
             ELSE [id |-> MaxRowId(st.docs) + 1, library |-> row.library,
                   path |-> row.path, title |-> row.title, content |-> row.content]
  IN [st EXCEPT !.docs = st.docs \cup {new},
                !.fts = IF st.triggers = "none" THEN st.fts
                        ELSE st.fts \cup {FtsEntry(new, st.ftsSchema)}]

\* A variant the claims are tried against: an insert that first removes every
\* row of the library, as a re-index that syncs the store with the checkout would
UpsertWholeLibrary(st, row) ==
  LET old == {r \in st.docs : r.library = row.library}
      new == IF st.docsSchema = "v2"
             THEN [id |-> MaxRowId(st.docs) + 1, library |-> row.library,
                   path |-> row.path, title |-> row.title, content |-> row.content,
                   source |-> row.source]
             ELSE [id |-> MaxRowId(st.docs) + 1, library |-> row.library,
                   path |-> row.path, title |-> row.title, content |-> row.content]
  IN [st EXCEPT !.docs = (st.docs \ old) \cup {new},
                !.fts = IF st.triggers = "none" THEN st.fts
                        ELSE st.fts \cup {FtsEntry(new, st.ftsSchema)}]

\* insertStmt.run(library, path, title, content[, source])
Upsert(st, row) ==
  LET old == {r \in st.docs : r.library = row.library /\ r.path = row.path}
      new == IF st.docsSchema = "v2"
             THEN [id |-> MaxRowId(st.docs) + 1, library |-> row.library,
                   path |-> row.path, title |-> row.title, content |-> row.content,
                   source |-> row.source]
             ELSE [id |-> MaxRowId(st.docs) + 1, library |-> row.library,
                   path |-> row.path, title |-> row.title, content |-> row.content]
      kept == IF ReplaceFiresDelete /\ st.triggers # "none"
              THEN {e \in st.fts : e.rowid \notin {r.id : r \in old}} ELSE st.fts
  IN [st EXCEPT !.docs = (st.docs \ old) \cup {new},
                !.fts = IF st.triggers = "none" THEN kept
                        ELSE kept \cup {FtsEntry(new, st.ftsSchema)}]

\* A variant the claims are tried against: the loop without its try/catch, which
\* ends at the first file that fails
RECURSIVE RunInsertsAbort(_, _, _)
RunInsertsAbort(st, items, n) ==
  IF items = <<>> \/ Head(items).fails THEN [store |-> st, indexed |-> n]
  ELSE RunInsertsAbort(Upsert(st, Head(items).row), Tail(items), n + 1)

\* the loop over the discovered files: a file whose read fails is skipped
RECURSIVE RunInserts(_, _, _)
RunInserts(st, items, n) ==
  IF items = <<>> THEN [store |-> st, indexed |-> n]
  ELSE IF Head(items).fails THEN RunInserts(st, Tail(items), n)
  ELSE RunInserts(Upsert(st, Head(items).row), Tail(items), n + 1)

SLASH == <<"/">>

\* A variant the claims are tried against: the logical path without the
\* library in front of it
LibraryItemsNoPrefix(lib, dsk, bad, withSource) ==
  Flatten([p \in 1..Len(lib.docsPaths) |->
    LET files == Glob(dsk, lib.name, lib.docsPaths[p], "**/*.md")
    IN [i \in 1..Len(files) |->
          LET content == dsk[files[i]]
              docPath == StripMd(files[i].file)
              \* t: extractTitle(content), cleaned: cleanMarkdown(content)
              Row(t, cleaned) ==
                LET title == IF t.ok /\ t.val # <<>> THEN t.val
                             ELSE basename(files[i].file, EXT_MD)
                IN IF withSource
                   THEN [library |-> lib.shortName, path |-> docPath, title |-> title,
                         content |-> cleaned, source |-> DOCS]
                   ELSE [library |-> lib.shortName, path |-> docPath, title |-> title,
                         content |-> cleaned]
          IN [fails |-> files[i] \in bad,
              row |-> Row(extractTitle(content), cleanMarkdown(content))]]])

\* the rows indexLibrary(lib) writes, in order; bad: the files whose read fails
LibraryItems(lib, dsk, bad, withSource) ==
  Flatten([p \in 1..Len(lib.docsPaths) |->
    LET files == Glob(dsk, lib.name, lib.docsPaths[p], "**/*.md")
    IN [i \in 1..Len(files) |->
          LET content == dsk[files[i]]
              docPath == lib.shortName \o SLASH \o StripMd(files[i].file)
              \* t: extractTitle(content), cleaned: cleanMarkdown(content)
              Row(t, cleaned) ==
                LET title == IF t.ok /\ t.val # <<>> THEN t.val
                             ELSE basename(files[i].file, EXT_MD)
                IN IF withSource
                   THEN [library |-> lib.shortName, path |-> docPath, title |-> title,
                         content |-> cleaned, source |-> DOCS]
                   ELSE [library |-> lib.shortName, path |-> docPath, title |-> title,
                         content |-> cleaned]
          IN [fails |-> files[i] \in bad,
              row |-> Row(extractTitle(content), cleanMarkdown(content))]]])

\* the rows indexExamples() writes
ExampleItems(dsk, bad) ==
  Flatten([p \in 1..Len(EXAMPLES_CONFIG.paths) |->
    Flatten([q \in 1..Len(EXAMPLES_CONFIG.filePatterns) |->
      LET root == EXAMPLES_CONFIG.paths[p]
          files == Glob(dsk, EXAMPLES_CONFIG.name, root, EXAMPLES_CONFIG.filePatterns[q])
      IN [i \in 1..Len(files) |->
            LET content == dsk[files[i]]
                category == basename(root, <<>>)
                \* t: extractSwiftTitle(content)
                Row(t) ==
                  [library |-> EXAMPLES,
                   path |-> EXAMPLES \o SLASH \o category \o SLASH \o files[i].file,
                   title |-> IF t.ok /\ t.val # <<>> THEN t.val
                             ELSE basename(files[i].file, EXT_SWIFT),
                   content |-> content, source |-> EXAMPLES]
            IN [fails |-> files[i] \in bad,
                row |-> Row(extractSwiftTitle(content))]]])])

\* the rows indexEpisodes() writes
EpisodeItems(dsk, bad) ==
  LET dirs == EpisodeDirs(dsk)
  IN Flatten([d \in 1..Len(dirs) |->
       Flatten([q \in 1..Len(EPISODES_CONFIG.filePatterns) |->
         LET files == Glob(dsk, EPISODES_CONFIG.name, dirs[d], EPISODES_CONFIG.filePatterns[q])
         IN [i \in 1..Len(files) |->
               [fails |-> files[i] \in bad,
                row |-> [library |-> EPISODES,
                         path |-> EPISODES \o SLASH \o dirs[d] \o SLASH \o files[i].file,
                         title |-> formatEpisodeName(dirs[d]) \o <<":", " ">>
                                     \o basename(files[i].file, EXT_SWIFT),
                         content |-> dsk[files[i]], source |-> EPISODES]]]])])

-----------------------------------------------------------------------------
(* lib/index.ts: search and fallbackSearch                                  *)

\* an option the caller left out
Unset == <<"<unset>">>
NoLimit == -99

DEFAULT_LIMIT == 10

\* options.limit || 10
EffLimit(limit) == IF limit = NoLimit \/ limit = 0 THEN DEFAULT_LIMIT ELSE limit
\* A variant the claims are tried against: options.source || "all"
EffSourceAll(source) == IF source = Unset \/ source = <<>> THEN ALL ELSE source
\* options.source || "docs"
EffSource(source) == IF source = Unset \/ source = <<>> THEN DOCS ELSE source
\* if (options.lib): an empty string filters nothing
HasLib(lib) == lib # Unset /\ lib # <<>>

\* query.replace(/['"]/g, "").split(/\s+/).filter(Boolean)
QueryTerms(query) ==
  SplitAcc(SelectSeq(query, LAMBDA c : c \notin QuoteChars), SpaceChars, <<>>, <<>>)

\* .map((term) => `"${term}"*`).join(" ")
FtsQuery(query) ==
  LET terms == QueryTerms(query)
  IN Join([i \in 1..Len(terms) |-> <<"\"">> \o terms[i] \o <<"\"", "*">>], <<" ">>)

\* the columns of docs_fts
FtsColumns(schema) ==
  IF schema = "v2" THEN {"title", "content", "library", "path", "source"}
  ELSE {"title", "content", "library", "path"}

\* docs_fts MATCH ftsQuery: every "term"* is a prefix phrase of the term's tokens,
\* looked for in every column; the phrases are ANDed, a phrase without tokens is
\* dropped, and a query without phrases matches nothing
QueryPhrases(terms) == {ph \in {Tokenize(terms[i]) : i \in 1..Len(terms)} : ph # <<>>}
FtsMatch(e, phrases, schema) ==
  /\ phrases # {}
  /\ \A ph \in phrases : \E col \in FtsColumns(schema) : PhraseMatch(ph, e[col])

\* LIMIT n: a negative n is no limit. Without a model of bm25 (ranked) and of the
\* scan order (fallback), any n of the rows may be the ones returned
Limited(rows, n) ==
  IF n < 0 \/ Cardinality(rows) <= n THEN {rows}
  ELSE {R \in SUBSET rows : Cardinality(R) = n}

\* A variant the claims are tried against: the statement without AND source = ?
FilteredByLibrary(rows, opts) ==
  {r \in rows : HasLib(opts.lib) => r.library = opts.lib}

\* WHERE ... AND library = ? AND source = ?
Filtered(rows, opts) ==
  {r \in rows : /\ HasLib(opts.lib) => r.library = opts.lib
                /\ EffSource(opts.source) # ALL => r.source = EffSource(opts.source)}

\* the ranked statement, prepared and run: the sets of rows it can return, or a
\* throw. It throws when docs_fts has no column source, when a matching index
\* entry has no row in docs (fts5: missing row from content table), and when
\* the storage fails (fault)
RankedQuery(st, query, opts, fault) ==
  LET phrases == QueryPhrases(QueryTerms(query))
      hits == {e \in st.fts : FtsMatch(e, phrases, st.ftsSchema)}
      ids == {r.id : r \in st.docs}
  IN IF fault \/ st.ftsSchema # "v2" \/ \E e \in hits : e.rowid \notin ids
     THEN [threw |-> TRUE, rows |-> {}]
     ELSE [threw |-> FALSE,
           rows |-> Filtered({r \in st.docs : r.id \in {e.rowid : e \in hits}}, opts)]

\* the LIKE statement
LikeQuery(st, query, opts, fault) ==
  LET likePattern == <<"%">> \o query \o <<"%">>
  IN IF fault THEN [threw |-> TRUE, rows |-> {}]
     ELSE [threw |-> FALSE,
           rows |-> Filtered({r \in st.docs : Like(likePattern, r.title)
                                               \/ Like(likePattern, r.content)}, opts)]

RankedResult(r) ==
  [library |-> r.library, path |-> r.path, title |-> r.title,
   snippet |-> <<"<snippet()>">>, score |-> "bm25()", source |-> r.source]

\* substr(content, 1, 200) as snippet, 0 as score
SNIPPET_LEN == 200
FallbackResult(r) ==
  [library |-> r.library, path |-> r.path, title |-> r.title,
   snippet |-> SubSeq(r.content, 1, IF Len(r.content) < SNIPPET_LEN THEN Len(r.content)
                                    ELSE SNIPPET_LEN),
   score |-> "0", source |-> r.source]

\* A variant the claims are tried against: fallbackSearch without try/catch, as
\* the earlier version has it (src/lib/index.ts)
fallbackSearchUncaught(st, query, opts, fault) ==
  LET q == LikeQuery(st, query, opts, fault)
  IN IF q.threw THEN [threw |-> TRUE, path |-> "failed", rows |-> {}]
     ELSE [threw |-> FALSE, path |-> "fallback", rows |-> q.rows]

\* fallbackSearch(query, options): try { ... } catch { return [] }
fallbackSearch(st, query, opts, fault) ==
  LET q == LikeQuery(st, query, opts, fault)
  IN IF q.threw THEN [threw |-> FALSE, path |-> "failed", rows |-> {}]
     ELSE [threw |-> FALSE, path |-> "fallback", rows |-> q.rows]

\* A variant the claims are tried against: search without if (!ftsQuery) return []
searchRowsNoGuard(st, query, opts, ftsFault, likeFault) ==
  LET q == RankedQuery(st, query, opts, ftsFault)
  IN IF q.threw THEN fallbackSearch(st, query, opts, likeFault)
     ELSE [threw |-> FALSE, path |-> "ranked", rows |-> q.rows]

\* search(query, options) on the opened store: which path answered, and the rows
\* the answer is drawn from
searchRows(st, query, opts, ftsFault, likeFault) ==
  IF FtsQuery(query) = <<>> THEN [threw |-> FALSE, path |-> "none", rows |-> {}]
  ELSE LET q == RankedQuery(st, query, opts, ftsFault)
       IN IF q.threw THEN fallbackSearch(st, query, opts, likeFault)
          ELSE [threw |-> FALSE, path |-> "ranked", rows |-> q.rows]

-----------------------------------------------------------------------------
(* bounds of the model *)

\* the largest rowid a run may hand out
MaxId == 3

\* What git clone / git pull (lib/repos.ts) have put under data/repos is an
\* input of the call that reads it: the files of the repository, each with one of
\* the contents upstream can give it, or absent
Disks(repo) ==
  LET mine == {f \in DiskFiles : f.repo = repo}
      contents == UNION {Versions(f) : f \in mine} \cup {Absent}
  IN {[f \in DiskFiles |-> IF f \in mine THEN g[f] ELSE Absent] :
        g \in {h \in [mine -> contents] :
                 \A f \in mine : h[f] \in Versions(f) \cup {Absent}}}

\* the sets of unreadable files a call is tried with: none, or one file of the
\* repository the call reads
BadSets(repo, dsk) ==
  {{}} \cup {{f} : f \in {g \in DiskFiles : g.repo = repo /\ dsk[g] # Absent}}

-----------------------------------------------------------------------------
(* actions *)

SetStore(st) ==
  /\ docsSchema' = st.docsSchema
  /\ ftsSchema' = st.ftsSchema
  /\ triggers' = st.triggers
  /\ docs' = st.docs
  /\ fts' = st.fts

NoCall == [op |-> "none"]

Init ==
  /\ code \in {"v1", "v2"}
  /\ db = "null"
  /\ docsSchema = "none" /\ ftsSchema = "none" /\ triggers = "none"
  /\ docs = {} /\ fts = {}
  /\ last = NoCall

\* the installed program is replaced by the current version between two runs
Upgrade ==
  /\ code = "v1" /\ db = "null"
  /\ code' = "v2"
  /\ last' = NoCall
  /\ UNCHANGED <<db, docsSchema, ftsSchema, triggers, docs, fts>>

openIndex ==
  /\ SetStore(Opened(Store))
  /\ db' = "open"
  /\ last' = [op |-> "openIndex"]
  /\ UNCHANGED code

closeIndex ==
  /\ db = "open"
  /\ db' = "null"
  /\ last' = [op |-> "closeIndex"]
  /\ UNCHANGED <<code, docsSchema, ftsSchema, triggers, docs, fts>>

\* an index function: openIndex, db.prepare (which throws out of the function),
\* then the loop over the files
IndexCall(name, arg, dsk, bad, items) ==
  LET st == Opened(Store)
  IN /\ db' = "open"
     /\ UNCHANGED code
     /\ IF PrepareInsertFails(st)
        THEN /\ SetStore(st)
             /\ last' = [op |-> name, arg |-> arg, disk |-> dsk, bad |-> bad,
                         threw |-> TRUE, count |-> 0]
        ELSE LET r == RunInserts(st, items, 0)
             IN /\ MaxRowId(r.store.docs) <= MaxId
                /\ SetStore(r.store)
                /\ last' = [op |-> name, arg |-> arg, disk |-> dsk, bad |-> bad,
                            threw |-> FALSE, count |-> r.indexed]

indexLibrary(lib, dsk, bad) ==
  /\ code = "v2"
  /\ IndexCall("indexLibrary", lib.shortName, dsk, bad, LibraryItems(lib, dsk, bad, TRUE))

indexExamples(dsk, bad) ==
  /\ code = "v2"
  /\ IndexCall("indexExamples", EXAMPLES, dsk, bad, ExampleItems(dsk, bad))

indexEpisodes(dsk, bad) ==
  /\ code = "v2"
  /\ IndexCall("indexEpisodes", EPISODES, dsk, bad, EpisodeItems(dsk, bad))

\* indexLibrary of the earlier version (src/lib/index.ts)
indexLibraryV1(lib, dsk, bad) ==
  /\ code = "v1"
  /\ IndexCall("indexLibrary", lib.shortName, dsk, bad, LibraryItems(lib, dsk, bad, FALSE))

\* search(query, options), called in a process that has not opened the index;
\* opts = [lib, limit, source]
search(query, opts, ftsFault, likeFault) ==
  /\ code = "v2" /\ db = "null"
  /\ LET st == Opened(Store)
         r == searchRows(st, query, opts, ftsFault, likeFault)
     IN /\ SetStore(st)
        /\ \E R \in Limited(r.rows, EffLimit(opts.limit)) :
              last' = [op |-> "search", query |-> query, opts |-> opts,
                       ftsFault |-> ftsFault, likeFault |-> likeFault,
                       threw |-> r.threw, path |-> r.path,
                       results |-> IF r.path = "ranked" THEN {RankedResult(x) : x \in R}
                                   ELSE {FallbackResult(x) : x \in R}]
  /\ db' = "open"
  /\ UNCHANGED code

\* the queries and options the model calls search with
Queries ==
  { <<>>,
    <<"\"", " ", "'">>,
    <<"o","l","d">>,
    <<"n","e","w">>,
    <<"F","o">>,
    <<"x">>,
    <<"\"","x","\"">>,
    <<"o","_","d">> }
LibOptions == {Unset, TCA}
LimitOptions == {NoLimit, 0, 1}
SourceOptions == {Unset, ALL, EXAMPLES}
SearchOptions == [lib : LibOptions, limit : LimitOptions, source : SourceOptions]

\* the largest rowid in the runs that search is checked on
MaxSearchId == 2

SearchScope == MaxRowId(docs) <= MaxSearchId

Next ==
  \/ Upgrade
  \/ openIndex
  \/ closeIndex
  \/ \E i \in 1..Len(LIBRARIES) : \E dsk \in Disks(LIBRARIES[i].name) :
        \E bad \in BadSets(LIBRARIES[i].name, dsk) : indexLibrary(LIBRARIES[i], dsk, bad)
  \/ \E dsk \in Disks(EXAMPLES_CONFIG.name) :
        \E bad \in BadSets(EXAMPLES_CONFIG.name, dsk) : indexExamples(dsk, bad)
  \/ \E dsk \in Disks(EPISODES_CONFIG.name) :
        \E bad \in BadSets(EPISODES_CONFIG.name, dsk) : indexEpisodes(dsk, bad)
  \/ \E i \in 1..Len(LIBRARIES) : \E dsk \in Disks(LIBRARIES[i].name) :
        \E bad \in BadSets(LIBRARIES[i].name, dsk) : indexLibraryV1(LIBRARIES[i], dsk, bad)

Spec == Init /\ [][Next]_vars

-----------------------------------------------------------------------------
(* lib/index.ts under failures: a statement of openIndex that throws, and a  *)
(* process that is killed while an index call writes                         *)

\* openIndex() of the current version when a statement of one of its two
\* db.exec calls throws (a locked, read-only or full store). db is assigned
\* before the first db.exec and no handler resets it. db.exec runs its
\* statements one by one, each committed as it ends: the ones before the
\* failing one have taken effect. The ALTER TABLE between the two calls runs
\* inside try/catch and throws nothing out of openIndex.
openIndexThrows ==
  /\ code = "v2" /\ db = "null"
  /\ \E at \in {"create docs", "create docs_fts", "drop triggers", "create triggers"} :
       LET st == Store
           o == OpenedV2(st)
       IN /\ SetStore(CASE at = "create docs" -> st
                         [] at = "create docs_fts" ->
                              [st EXCEPT !.docsSchema = IF @ = "none" THEN "v2" ELSE @]
                         [] at = "drop triggers" -> [o EXCEPT !.triggers = st.triggers]
                         [] at = "create triggers" -> [o EXCEPT !.triggers = "none"])
          /\ last' = [op |-> "openIndex", failed |-> at]
  /\ db' = "open"
  /\ UNCHANGED code

\* indexLibrary in a process that is killed while its k-th insertStmt.run is
\* at work. The program opens no transaction and sets no pragma: each run is a
\* transaction of its own that holds the replaced row's removal, the new row
\* and what trigger docs_ai writes, and the store that is found afterwards has
\* it whole (the kill came after the commit) or not at all (rolled back)
indexLibraryKilled(lib, dsk, bad) ==
  LET st == Opened(Store)
      Written(it) == ~it.fails
      Kill(items) ==
        \E k \in 1..Len(items), committed \in BOOLEAN :
           LET r == RunInserts(st, SubSeq(items, 1, IF committed THEN k ELSE k - 1), 0)
           IN /\ MaxRowId(r.store.docs) <= MaxId
              /\ SetStore(r.store)
              /\ last' = [op |-> "indexLibraryKilled", arg |-> lib.shortName,
                          disk |-> dsk, bad |-> bad, write |-> k,
                          committed |-> committed]
  IN /\ code = "v2" /\ ~PrepareInsertFails(st)
     /\ Kill(SelectSeq(LibraryItems(lib, dsk, bad, TRUE), Written))
     /\ db' = "null"
     /\ UNCHANGED code

NextFailure ==
  \/ openIndex
  \/ closeIndex
  \/ openIndexThrows
  \/ \E dsk \in Disks(LIBRARIES[1].name) : indexLibrary(LIBRARIES[1], dsk, {})
  \/ \E dsk \in Disks(LIBRARIES[1].name) : indexLibraryKilled(LIBRARIES[1], dsk, {})

FailureSpec == Init /\ [][NextFailure]_vars

\* The runs search is checked on: calls that build the store, then one search,
\* whose outcome is the last thing observed. (A search changes the store only
\* through openIndex, which is a call of its own in these runs.)
BuildStore == last.op # "search" /\ Next /\ SearchScope'

SearchOnce ==
  /\ last.op # "search"
  /\ \E q \in Queries : \E o \in SearchOptions : \E ff \in BOOLEAN : \E lf \in BOOLEAN :
        search(q, o, ff, lf)

NextSearch == BuildStore \/ SearchOnce

SearchSpec == Init /\ [][NextSearch]_vars

-----------------------------------------------------------------------------
(* the claims about the store (C1 to C5), stated over Spec                   *)

IndexOps == {"indexLibrary", "indexExamples", "indexEpisodes"}

SameKey(r1, r2) == r1.library = r2.library /\ r1.path = r2.path

\* a row without its rowid
NoId(r) == [f \in DOMAIN r \ {"id"} |-> r[f]]

LibOf(shortName) == CHOOSE l \in Range(LIBRARIES) : l.shortName = shortName

\* the files an index call went through, with the rows it wrote for them
CallItems(c) ==
  CASE c.op = "indexLibrary" -> LibraryItems(LibOf(c.arg), c.disk, c.bad, TRUE)
    [] c.op = "indexExamples" -> ExampleItems(c.disk, c.bad)
    [] c.op = "indexEpisodes" -> EpisodeItems(c.disk, c.bad)
    [] OTHER -> <<>>

\* the index entries of a key
EntriesOf(entries, row) ==
  {e \in entries : e.library = Tokenize(row.library) /\ e.path = Tokenize(row.path)}

\* s contains the token t
Contains(s, t) == Like(<<"%">> \o t \o <<"%">>, s)

\* what a search over all sources, without a library filter or a limit, and
\* without a storage failure, answers on store st
FoundRows(st, term) ==
  searchRows(st, term, [lib |-> Unset, limit |-> NoLimit, source |-> ALL], FALSE, FALSE).rows

\* C1: on a store that the current version created, after any sequence of
\* openIndex, indexLibrary, indexExamples and indexEpisodes calls, docs_fts holds
\* exactly one entry per row of docs, with the title, content, library, path and
\* source of that row, and no entry for a row that is not in docs.
C1_ShadowMatchesDocs ==
  (code = "v2" /\ ftsSchema = "v2") =>
     /\ \A r \in docs : {e \in fts : e.rowid = r.id} = {FtsEntry(r, ftsSchema)}
     /\ \A e \in fts : \E r \in docs : r.id = e.rowid

\* C1, the state that refutes it: an index entry whose row is no longer in docs
C1_OrphanEntry ==
  /\ code = "v2" /\ ftsSchema = "v2"
  /\ \E e \in fts : \A r \in docs : r.id # e.rowid

\* C2: when indexLibrary, indexExamples or indexEpisodes writes a key that is
\* already in docs with other content, then afterwards the key has exactly one
\* row, with the new title, content and source, and exactly one index entry; a
\* search for a token that only the old content had does not return the
\* document, and a search for a token of the new content returns it.
C2_ReindexReplaces ==
  [][ (code = "v2" /\ ftsSchema' = "v2" /\ last'.op \in IndexOps /\ ~last'.threw) =>
        \A k \in DOMAIN CallItems(last') :
           LET it == CallItems(last')[k]
               old == {r \in docs : SameKey(r, it.row)}
           IN (~it.fails /\ \E r \in old : r.content # it.row.content) =>
                /\ {NoId(r) : r \in {x \in docs' : SameKey(x, it.row)}} = {it.row}
                /\ Cardinality({x \in docs' : SameKey(x, it.row)}) = 1
                /\ Cardinality(EntriesOf(fts', it.row)) = 1
                /\ \A r \in old : \A t \in Range(Tokenize(r.content)) :
                      (\A f \in DOMAIN it.row : ~Contains(it.row[f], t)) =>
                         \A x \in FoundRows(Store', t) : ~SameKey(x, it.row)
                /\ \A t \in Range(Tokenize(it.row.content)) :
                      \E x \in FoundRows(Store', t) : SameKey(x, it.row)
    ]_vars

\* C2, the state that refutes it: two index entries of one key with different
\* content
C2_TwoEntriesForKey ==
  /\ code = "v2" /\ ftsSchema = "v2" /\ last.op \in IndexOps
  /\ \E e1 \in fts : \E e2 \in fts :
        e1.library = e2.library /\ e1.path = e2.path /\ e1.content # e2.content

\* C3: an index call that follows the same call over the same files (and reads
\* no file the first call could not read) leaves the number of rows as it was,
\* leaves every row's library, path, title, content and source as they were, and
\* leaves one row per (library, path).
C3_ReindexIdempotent ==
  [][ (/\ last'.op \in IndexOps /\ last.op = last'.op /\ last.arg = last'.arg
       /\ last.disk = last'.disk /\ last.bad \subseteq last'.bad) =>
        /\ Cardinality(docs') = Cardinality(docs)
        /\ {NoId(r) : r \in docs'} = {NoId(r) : r \in docs}
        /\ \A r1 \in docs' : \A r2 \in docs' : SameKey(r1, r2) => r1 = r2
    ]_vars

\* C3, its case: the only row of docs was written by the last call, and the
\* call before wrote the same row under the rowid before it
C3_IndexedTwice ==
  /\ last.op \in IndexOps /\ ~last.threw /\ last.count = 1
  /\ Cardinality(docs) = 1
  /\ \E r \in docs : \E e \in fts :
        /\ r.id = MaxRowId(docs) /\ e.rowid = r.id - 1
        /\ [e EXCEPT !.rowid = r.id] = FtsEntry(r, ftsSchema)

\* C4: when the current version opens a store whose docs has no source column
\* (by openIndex or by a function that calls it), every row keeps its library,
\* path, title and content and has source "docs", no row is added and (library,
\* path) stays unique; openIndex on a store whose docs has the column changes no
\* row.
C4_LegacyRowsKept ==
  [][ /\ (code = "v2" /\ docsSchema = "v1" /\ db' = "open") =>
             /\ docsSchema' = "v2"
             /\ \A r \in docs : \E n \in docs' :
                   /\ n.id = r.id /\ n.library = r.library /\ n.path = r.path
                   /\ n.title = r.title /\ n.content = r.content /\ n.source = DOCS
             /\ Cardinality(docs') = Cardinality(docs)
             /\ \A r1 \in docs' : \A r2 \in docs' : SameKey(r1, r2) => r1 = r2
      /\ (code = "v2" /\ docsSchema = "v2" /\ last'.op = "openIndex") => docs' = docs
    ]_vars

\* C4, its case: the current version has opened a store of the earlier version
\* that holds documents
C4_LegacyOpened ==
  /\ code = "v2" /\ last.op = "openIndex"
  /\ docsSchema = "v2" /\ ftsSchema = "v1" /\ docs # {}

\* C5: on a store that the earlier version created and the current version has
\* opened, an index call that finds a readable file does not throw, counts the
\* file and has its row in docs, and a ranked search finds the row.
C5_LegacyStoreIndexes ==
  (/\ code = "v2" /\ ftsSchema = "v1" /\ last.op \in IndexOps
   /\ \E k \in DOMAIN CallItems(last) : ~CallItems(last)[k].fails) =>
     /\ ~last.threw
     /\ last.count >= 1
     /\ \A k \in DOMAIN CallItems(last) :
          LET it == CallItems(last)[k]
          IN ~it.fails =>
               /\ \E r \in docs : NoId(r) = it.row
               /\ ~RankedQuery(Store, it.row.library,
                               [lib |-> Unset, limit |-> NoLimit, source |-> it.row.source],
                               FALSE).threw

\* C5, the state that refutes it: the index call has thrown
C5_LegacyIndexThrows ==
  /\ code = "v2" /\ ftsSchema = "v1" /\ last.op \in IndexOps
  /\ \E k \in DOMAIN CallItems(last) : ~CallItems(last)[k].fails
  /\ last.threw /\ last.count = 0

-----------------------------------------------------------------------------
(* the claims about search (C6 to C10), stated over SearchSpec               *)

\* row d answers the query on the path that produced the results
Answers(d, path, query) ==
  IF path = "ranked"
  THEN FtsMatch(FtsEntry(d, "v2"), QueryPhrases(QueryTerms(query)), "v2")
  ELSE LET likePattern == <<"%">> \o query \o <<"%">>
       IN Like(likePattern, d.title) \/ Like(likePattern, d.content)

ResultOf(d, results) ==
  \E r \in results : r.library = d.library /\ r.path = d.path /\ r.source = d.source

\* C6: a search without a source filter returns only documents of source
\* "docs", and nothing when only example or episode documents have the term;
\* with source "all" (no library filter, the limit not reached) it returns the
\* documents of every source that answer the query.
C6_DefaultScopeIsDocs ==
  last.op = "search" =>
    /\ last.opts.source = Unset =>
         /\ \A r \in last.results : r.source = DOCS
         /\ (\A d \in docs : d.source = DOCS =>
                ~Answers(d, "ranked", last.query) /\ ~Answers(d, "fallback", last.query))
              => last.results = {}
    /\ (/\ last.opts.source = ALL /\ last.opts.lib = Unset /\ last.opts.limit = NoLimit
        /\ last.path \in {"ranked", "fallback"}) =>
         \A d \in docs : Answers(d, last.path, last.query) => ResultOf(d, last.results)

\* C6, its case: the ranked query has run without a source filter for a term
\* that an example has and no documentation page has, and has returned nothing
C6_TermOnlyInExample ==
  /\ last.op = "search" /\ last.opts.source = Unset /\ last.opts.lib = Unset
  /\ last.path = "ranked" /\ last.results = {}
  /\ \E d \in docs : d.source = EXAMPLES /\ Answers(d, "ranked", last.query)
  /\ \E d \in docs : d.source = DOCS

\* C7: on the ranked and on the fallback path every result has the library of
\* the library filter, if one is given, and the source of the source filter,
\* which is "docs" if none is given, unless the filter is "all".
C7_FiltersOnBothPaths ==
  last.op = "search" =>
    \A r \in last.results :
       /\ last.opts.lib # Unset => r.library = last.opts.lib
       /\ last.opts.source = Unset => r.source = DOCS
       /\ last.opts.source \notin {Unset, ALL} => r.source = last.opts.source

\* C7, its case: the fallback path has answered a search with a library filter
\* and no source filter, on a store that holds documents of another source too
C7_FallbackFiltered ==
  /\ last.op = "search" /\ last.path = "fallback" /\ last.results # {}
  /\ last.opts.lib = TCA /\ last.opts.source = Unset
  /\ \E d \in docs : d.source # DOCS /\ Answers(d, "fallback", last.query)

\* s holds q as a run of characters (upper and lower case taken as equal)
HoldsText(s, q) ==
  \E i \in 1..(Len(s) - Len(q) + 1) :
     \A j \in 1..Len(q) : Lower(s[i + j - 1]) = Lower(q[j])

\* C27: every result of the fallback path is a document whose title or content
\* holds the text of the query, character by character, also when the query
\* holds % or _; its score is 0 and its snippet the first 200 characters of the
\* content
C27_FallbackHoldsQueryText ==
  (last.op = "search" /\ last.path = "fallback") =>
     \A r \in last.results :
        /\ r.score = "0"
        /\ \E d \in docs :
              /\ d.library = r.library /\ d.path = r.path /\ d.title = r.title
              /\ r.snippet = SubSeq(d.content, 1, IF Len(d.content) < 200
                                                  THEN Len(d.content) ELSE 200)
              /\ HoldsText(d.title, last.query) \/ HoldsText(d.content, last.query)

\* C27, its case: the query o_d on the fallback path has returned a document
\* that holds "old" and does not hold "o_d"
C27_UnderscoreMatchesAnyCharacter ==
  /\ last.op = "search" /\ last.path = "fallback"
  /\ last.query = <<"o","_","d">>
  /\ \E r \in last.results : r.score = "0" /\ HoldsText(r.snippet, <<"o","l","d">>)
  /\ \A d \in docs : ~HoldsText(d.title, last.query) /\ ~HoldsText(d.content, last.query)

\* C8: search returns at most limit results for a limit >= 0 that the caller
\* gives, and at most 10 when the caller gives none.
C8_AtMostLimit ==
  last.op = "search" =>
    Cardinality(last.results) <= (IF last.opts.limit = NoLimit THEN 10 ELSE last.opts.limit)

\* C8, the state that refutes it: a search with limit 0 has returned a document
C8_LimitZeroReturns ==
  last.op = "search" /\ last.opts.limit = 0 /\ last.results # {}

\* C9: search does not throw; when the ranked query fails and the LIKE query
\* does not, the results are those of the LIKE query (source, library and limit
\* applied), and when both fail, the result is empty.
C9_SearchNeverThrows ==
  last.op = "search" =>
    /\ ~last.threw
    /\ (QueryTerms(last.query) # <<>> /\ last.ftsFault /\ ~last.likeFault) =>
         /\ last.path = "fallback"
         /\ \E R \in Limited(LikeQuery(Store, last.query, last.opts, FALSE).rows,
                             EffLimit(last.opts.limit)) :
               last.results = {FallbackResult(x) : x \in R}
    /\ (QueryTerms(last.query) # <<>> /\ last.ftsFault /\ last.likeFault) =>
         last.results = {}

\* C9, its case: both queries have failed on a store that holds a document
\* which answers the query
C9_BothQueriesFailed ==
  /\ last.op = "search" /\ last.ftsFault /\ last.likeFault
  /\ QueryTerms(last.query) # <<>>
  /\ \E d \in docs : Answers(d, "fallback", last.query)
  /\ last.results = {} /\ ~last.threw

\* C10: a query without a term (empty, white space only, quotes only) returns
\* the empty list, runs neither query and does not throw.
C10_NoTermNoQuery ==
  (last.op = "search" /\ QueryTerms(last.query) = <<>>) =>
     last.results = {} /\ last.path = "none" /\ ~last.threw

\* C10, its case: quotes and white space only, on a store with documents, when
\* a query would have failed
C10_QuotesOnly ==
  /\ last.op = "search" /\ last.query # <<>> /\ QueryTerms(last.query) = <<>>
  /\ docs # {} /\ last.ftsFault /\ last.likeFault
  /\ last.results = {} /\ last.path = "none"

-----------------------------------------------------------------------------
(* the claims about the index functions (C17, C19, C20), stated over Spec    *)

\* C17: on a store of the current version, an index call in which the read (or
\* the insert) of a file fails returns normally, has written the row of every
\* other file it found, and returns the number of files that did not fail.
C17_FailedFileSkipped ==
  (code = "v2" /\ ftsSchema = "v2" /\ last.op \in IndexOps) =>
     LET items == CallItems(last)
         good == {k \in DOMAIN items : ~items[k].fails}
     IN /\ ~last.threw
        /\ last.count = Cardinality(good)
        /\ \A k \in good : \E r \in docs : NoId(r) = items[k].row

\* C17, its case: one of two files has failed and the other one is in docs
C17_OneOfTwoFailed ==
  /\ code = "v2" /\ ftsSchema = "v2" /\ last.op \in IndexOps
  /\ last.bad # {} /\ last.count = 1 /\ ~last.threw
  /\ Cardinality({k \in DOMAIN CallItems(last) : CallItems(last)[k].fails}) = 1
  /\ Len(CallItems(last)) = 2

\* the keys (library, logical path) of a set of rows
Keys(rows) == {<<r.library, r.path>> : r \in rows}

\* C19: no step removes a key from the store: an index call that no longer finds
\* a file (removed or renamed upstream) leaves the row of that file in docs.
C19_KeysNeverShrink == [][Keys(docs) \subseteq Keys(docs')]_vars

\* C19, its case: the library was indexed again after A.md had gone from the
\* checkout, and the row of tca/A is in docs
C19_RemovedFileStillIndexed ==
  /\ last.op = "indexLibrary" /\ last.arg = TCA /\ ~last.threw
  /\ last.disk[TcaA] = Absent /\ last.disk[TcaB] # Absent
  /\ \E r \in docs : r.library = TCA /\ r.path = TCA \o SLASH \o <<"A">>

\* the first segment of a logical path
FirstSegment(path) == SubSeq(path, 1, RunEndNot(path, 1, {"/"}))

\* C20: no two rows of docs have the same logical path, and the library of every
\* row is the first segment of its path, so getDoc(path) has at most one
\* candidate row.
C20_PathIdentifiesRow ==
  /\ \A r1, r2 \in docs : r1.path = r2.path => r1 = r2
  /\ \A r \in docs : FirstSegment(r.path) = r.library

\* C20, its case: rows of a library, of the examples and of the episodes side
\* by side
C20_AllSourcesIndexed ==
  /\ \E r \in docs : r.library = TCA
  /\ \E r \in docs : r.library = EXAMPLES
  /\ \E r \in docs : r.library = EPISODES

\* C21: the number an index call returns is the number of documents it indexed:
\* when the store held no row of that source before the call, the number equals
\* the number of rows of that source afterwards.
C21_CountIsRowsOfSource ==
  [][(last'.op \in IndexOps /\ ~last'.threw
        /\ \A r \in docs : r.library # last'.arg) =>
      last'.count = Cardinality({r \in docs' : r.library = last'.arg})]_vars

\* C21, the state that refutes it: indexEpisodes on an empty store, with one
\* playground file in the checkout, returned 2 and left one row (the second
\* INSERT OR REPLACE took the place of the first, hence rowid 2)
C21_PlaygroundCountedTwice ==
  /\ last.op = "indexEpisodes" /\ ~last.threw /\ last.bad = {}
  /\ last.disk[EpP] # Absent /\ last.disk[EpF] = Absent
  /\ last.count = 2
  /\ Cardinality(docs) = 1
  /\ \A r \in docs : r.id = 2 /\ r.library = EPISODES

-----------------------------------------------------------------------------
(* lib/index.ts with lib/repos.ts: what indexLibrary stores for one          *)
(* documentation file, as a function of the file's text. The file is A.md of *)
(* the first library; the text is drawn from lines that a DocC article or a  *)
(* page with front matter is made of, and from texts that hold a directive.  *)

MaxDocLines == 4
MaxDocLen == 29

\* a DocC symbol heading, a plain heading, a front-matter fence, a title field,
\* a body line, another field
TitleLines ==
  << <<"#", " ", BQ, BQ, "S", BQ, BQ>>,
     <<"#", " ", " ", "H", " ">>,
     DASH3,
     TITLE_KEY \o <<"\"", "T", "\"">>,
     <<"x">>,
     <<"s", "u", "b">> \o TITLE_KEY \o <<" ", "U">> >>

\* a directive with a body, one with an empty body, one whose body holds a
\* directive; the text that stands before and after a directive
Directives ==
  [name |-> << <<"@","M"," ","{"," ","x"," ","}">>,
               <<"@","M","{","}">>,
               <<"@","R"," ","{"," ","@","C"," ","{"," ","x"," ","}"," ","}">> >>,
   before |-> {<<>>, <<"a", " ">>, <<"a", "\n">>},
   after |-> {<<>>, <<" ", "b">>, <<"\n", "b">>}]

Documents ==
  LET lines == {TitleLines[k] : k \in DOMAIN TitleLines}
      pages == UNION {[1..n -> lines] : n \in 1..MaxDocLines}
  IN {d \in {Join(p, <<"\n">>) : p \in pages} : Len(d) <= MaxDocLen}
     \cup {pre \o Directives.name[k] \o post :
             pre \in Directives.before, k \in DOMAIN Directives.name,
             post \in Directives.after}

DocumentNext ==
  /\ last.op = "none"
  /\ \E c \in Documents :
       indexLibrary(LIBRARIES[1], [f \in DiskFiles |-> IF f = TcaA THEN c ELSE Absent], {})

DocumentSpec == Init /\ [][DocumentNext]_vars

\* C22: whatever the text of a documentation file, the title indexLibrary
\* stores is the symbol name of a DocC heading "# ``Symbol``" if the text has
\* one, else the trimmed text of a "# Heading" line if there is one, else the
\* title field of the front-matter block the text begins with (its quotes
\* removed), else the file's name without its extension; a text with front
\* matter and a heading gets the heading
C22_ExpectedTitle(content) ==
  LET lines == SplitKeep(content, "\n", <<>>)
      At(l) == {i \in 1..Len(lines) : lines[i] = l}
      closing == MinOr0(At(DASH3) \ {1})
  IN IF At(TitleLines[1]) # {} THEN <<"S">>
     ELSE IF At(TitleLines[2]) # {} THEN <<"H">>
     ELSE IF 1 \in At(DASH3) /\ \E i \in At(TitleLines[4]) : i < closing THEN <<"T">>
     ELSE <<"A">>

C22_IsPage(content) ==
  \A l \in Range(SplitKeep(content, "\n", <<>>)) : \E k \in DOMAIN TitleLines : l = TitleLines[k]

C22_TitleByPriority ==
  (last.op = "indexLibrary" /\ ~last.threw /\ C22_IsPage(last.disk[TcaA])) =>
     \A r \in docs : r.title = C22_ExpectedTitle(last.disk[TcaA])

\* C22, its case: the front matter holds a subtitle field in front of the
\* title field; the stored title is the value of the subtitle
C22_SubtitleTakenForTitle ==
  /\ last.op = "indexLibrary" /\ ~last.threw
  /\ last.disk[TcaA] = Join(<<DASH3, TitleLines[6], TitleLines[4], DASH3>>, <<"\n">>)
  /\ \E r \in docs : r.title = <<"U">>

\* C23: whatever stands before and after it, a directive @Name { body } leaves
\* nothing in the content indexLibrary stores: the stored content is the
\* cleaned text of what stands before and after the directive, also when the
\* body holds a directive with braces of its own
C23_DirectiveRemoved ==
  (last.op = "indexLibrary" /\ ~last.threw) =>
     \A pre \in Directives.before, k \in DOMAIN Directives.name,
        post \in Directives.after :
        last.disk[TcaA] = pre \o Directives.name[k] \o post =>
           \A r \in docs : r.content = cleanMarkdown(pre \o post)

\* C23, its case: a row directive whose body is a column directive; the first
\* closing brace ends the match, and the brace of the outer directive is stored
C23_NestedDirectiveLeavesBrace ==
  /\ last.op = "indexLibrary" /\ ~last.threw
  /\ last.disk[TcaA] = <<"a", "\n">> \o Directives.name[3] \o <<"\n", "b">>
  /\ \E r \in docs : r.content = <<"a", "\n", " ", "}", "\n", "b">>

-----------------------------------------------------------------------------
(* the claims about failures of the store, over FailureSpec                  *)

\* the index of st has one entry per row, made of that row, and no other entry
C24_Agree(st) ==
  /\ \A r \in st.docs : {e \in st.fts : e.rowid = r.id} = {FtsEntry(r, st.ftsSchema)}
  /\ \A e \in st.fts : \E r \in st.docs : r.id = e.rowid

\* C24: when the process is killed during a write of an index call on a store
\* that has its index and its triggers, the store found afterwards is the store as it was before that write or the store
\* after the whole write (replaced row removed, new row inserted, index
\* written), and if docs and docs_fts agreed before the write they agree
\* afterwards
C24_KilledWriteIsAtomic ==
  [][ (last'.op = "indexLibraryKilled" /\ triggers' = "v2" /\ ftsSchema' = "v2") =>
        LET Written(it) == ~it.fails
            items == SelectSeq(LibraryItems(LibOf(last'.arg), last'.disk, last'.bad, TRUE),
                               Written)
            before == RunInserts(Opened(Store), SubSeq(items, 1, last'.write - 1), 0).store
            after == Upsert(before, items[last'.write].row)
        IN /\ Store' \in {before, after}
           /\ C24_Agree(before) => C24_Agree(Store')
    ]_vars

\* C24, its case: the killed write replaced a row and was committed; the store
\* found afterwards holds the index entry of the replaced row
C24_KilledAfterReplace ==
  /\ last.op = "indexLibraryKilled" /\ last.write = 1 /\ last.committed
  /\ triggers = "v2" /\ ftsSchema = "v2"
  /\ Cardinality(docs) = 1
  /\ \A r \in docs : r.id = 2 /\ {e \in fts : e.rowid = r.id} = {FtsEntry(r, ftsSchema)}
  /\ \E e \in fts : e.rowid = 1

\* C30: after an openIndex that threw out of its schema statements the
\* connection is not kept: db is null, so that the next openIndex runs the
\* schema statements again
C30_FailedOpenKeepsNoHandle ==
  (last.op = "openIndex" /\ "failed" \in DOMAIN last) => db = "null"

\* C30, its case: the statement that creates the triggers threw after they
\* were dropped; the index call that follows gets the kept connection and
\* writes rows that no index entry stands for
C30_RowsWithoutIndex ==
  /\ last.op = "indexLibrary" /\ ~last.threw /\ db = "open"
  /\ triggers = "none" /\ docsSchema = "v2" /\ ftsSchema = "v2"
  /\ docs # {} /\ fts = {}

-----------------------------------------------------------------------------
(* commands/get.ts: truncateContent, a function of its arguments. It is      *)
(* applied to every content and limit within the bounds below.               *)

NL == "\n"

DEFAULT_PREVIEW_LINES == 50

\* Array.prototype.slice(0, n)
Slice0(a, n) ==
  IF n < 0 THEN SubSeq(a, 1, IF Len(a) + n > 0 THEN Len(a) + n ELSE 0)
  ELSE SubSeq(a, 1, IF n < Len(a) THEN n ELSE Len(a))

\* A variant the claims are tried against: the comparison of the number of
\* lines with the limit made strict
truncateContentStrict(content, maxLines) ==
  LET lines == SplitKeep(content, NL, <<>>)
      totalLines == Len(lines)
  IN IF Len(lines) < maxLines
     THEN [content |-> content, truncated |-> FALSE, totalLines |-> totalLines]
     ELSE [content |-> Join(Slice0(lines, maxLines), <<NL>>), truncated |-> TRUE,
           totalLines |-> totalLines]

truncateContent(content, maxLines) ==
  LET lines == SplitKeep(content, NL, <<>>)
      totalLines == Len(lines)
  IN IF Len(lines) <= maxLines
     THEN [content |-> content, truncated |-> FALSE, totalLines |-> totalLines]
     ELSE [content |-> Join(Slice0(lines, maxLines), <<NL>>), truncated |-> TRUE,
           totalLines |-> totalLines]

\* the contents and limits truncateContent is applied to
MaxContentLen == 5
MaxLines == 3
Contents == UNION {[1..n -> {"a", NL}] : n \in 0..MaxContentLen}

TruncateInit ==
  /\ code = "v2" /\ db = "null"
  /\ docsSchema = "none" /\ ftsSchema = "none" /\ triggers = "none"
  /\ docs = {} /\ fts = {}
  /\ last \in [op : {"arguments"}, content : Contents, maxLines : 1..MaxLines]

TruncateOnce ==
  /\ last.op = "arguments"
  /\ last' = [op |-> "truncateContent", content |-> last.content,
              maxLines |-> last.maxLines,
              result |-> truncateContent(last.content, last.maxLines)]
  /\ UNCHANGED <<code, db, docsSchema, ftsSchema, triggers, docs, fts>>

TruncateSpec == TruncateInit /\ [][TruncateOnce]_vars

\* the number of lines of a text: one more than its line breaks
LineCount(text) == Cardinality({i \in 1..Len(text) : text[i] = NL}) + 1

\* t is the first n lines of text (n >= 1, text has more than n lines): the part
\* of text in front of its n-th line break
IsFirstLines(t, n, text) ==
  /\ LineCount(t) = n
  /\ Len(t) < Len(text)
  /\ SubSeq(text, 1, Len(t)) = t
  /\ text[Len(t) + 1] = NL

\* C14: for every content and positive limit, truncateContent gives the content
\* back with truncated = false when it has at most limit lines, and the first
\* limit lines with truncated = true when it has more; totalLines is the number
\* of lines of the content in both cases.
C14_TruncateContent ==
  last.op = "truncateContent" =>
    LET r == last.result
    IN /\ r.totalLines = LineCount(last.content)
       /\ LineCount(last.content) <= last.maxLines =>
             r.content = last.content /\ ~r.truncated
       /\ LineCount(last.content) > last.maxLines =>
             r.truncated /\ IsFirstLines(r.content, last.maxLines, last.content)

\* C14, its case: a content of more lines than the limit, cut in front of an
\* empty line
C14_Truncated ==
  /\ last.op = "truncateContent"
  /\ last.maxLines = 2 /\ last.content = <<"a", NL, NL, "a">>
  /\ last.result.truncated /\ last.result.content = <<"a", NL>>
  /\ last.result.totalLines = 3

-----------------------------------------------------------------------------
(* lib/index.ts: getDoc, listDocs, getStats (on an open store)               *)

\* the characters of the model's libraries, paths and sources in the order of
\* their bytes, which is the order of the BINARY collation of ORDER BY
ByteOrder ==
  <<"-", ".", "/", "0","1","2","3","4","5","6","7","8","9">> \o UpperCase \o LowerCase

RECURSIVE TextLess(_, _)
TextLess(a, b) ==
  IF b = <<>> THEN FALSE
  ELSE IF a = <<>> THEN TRUE
  ELSE IF Head(a) = Head(b) THEN TextLess(Tail(a), Tail(b))
  ELSE (CHOOSE i \in DOMAIN ByteOrder : ByteOrder[i] = Head(a))
         < (CHOOSE i \in DOMAIN ByteOrder : ByteOrder[i] = Head(b))

\* ORDER BY source, library, path
RowBefore(r1, r2) ==
  \/ TextLess(r1.source, r2.source)
  \/ r1.source = r2.source /\ TextLess(r1.library, r2.library)
  \/ r1.source = r2.source /\ r1.library = r2.library /\ TextLess(r1.path, r2.path)

\* A variant the claims are tried against: ORDER BY path
RECURSIVE OrderedByPath(_)
OrderedByPath(rows) ==
  IF rows = {} THEN <<>>
  ELSE LET first == CHOOSE r \in rows : \A o \in rows \ {r} : ~TextLess(o.path, r.path)
       IN <<first>> \o OrderedByPath(rows \ {first})

RECURSIVE Ordered(_)
Ordered(rows) ==
  IF rows = {} THEN <<>>
  ELSE LET first == CHOOSE r \in rows : \A o \in rows \ {r} : ~RowBefore(o, r)
       IN <<first>> \o Ordered(rows \ {first})

\* listDocs(lib, source): SELECT library, path, title, source FROM docs WHERE ...
listDocs(st, lib, source) ==
  LET hasSource == source # Unset /\ source # <<>> /\ source # ALL
      rows == {x \in st.docs : (HasLib(lib) => x.library = lib)
                                 /\ (hasSource => x.source = source)}
  IN Ordered({[library |-> r.library, path |-> r.path, title |-> r.title,
               source |-> r.source] : r \in rows})

\* A variant the claims are tried against: WHERE lower(path) = lower(?)
getDocNoCase(st, path) ==
  LET found == {r \in st.docs : [i \in DOMAIN r.path |-> Lower(r.path[i])]
                                   = [i \in DOMAIN path |-> Lower(path[i])]}
  IN IF found = {} THEN NoMatch ELSE Matched(NoId(CHOOSE r \in found : TRUE))

\* getDoc(path): stmt.get gives the first row of the statement, undefined when
\* there is none
getDoc(st, path) ==
  LET found == {r \in st.docs : r.path = path}
  IN IF found = {} THEN NoMatch ELSE Matched(NoId(CHOOSE r \in found : TRUE))

\* A variant the claims are tried against: the groups counted in docs_fts
getStatsOfIndex(st) ==
  [totalDocs |-> Cardinality(st.fts),
   byLibrary |-> [l \in {r.library : r \in st.docs} |->
                    Cardinality({e \in st.fts : e.library = Tokenize(l)})],
   bySource |-> [x \in {r.source : r \in st.docs} |->
                   Cardinality({r \in st.docs : r.source = x})]]

\* getStats(): COUNT(*), and COUNT(*) GROUP BY library and GROUP BY source
getStats(st) ==
  [totalDocs |-> Cardinality(st.docs),
   byLibrary |-> [l \in {r.library : r \in st.docs} |->
                    Cardinality({r \in st.docs : r.library = l})],
   bySource |-> [x \in {r.source : r \in st.docs} |->
                   Cardinality({r \in st.docs : r.source = x})]]

-----------------------------------------------------------------------------
(* The commands (src/commands). Each command runs in a process of its own,   *)
(* which starts with db = null; the variable db holds the handle as the      *)
(* process of the last command left it. What git has put under data/repos    *)
(* when the command reads it is an input of the command.                     *)

\* openIndex() in a process that has not opened the store yet
OpenedFresh(st) == IF code = "v2" THEN OpenedV2(st) ELSE OpenedV1(st)

BOGUS == <<"z","z","z">>

\* librariesToInit of initCommand (libraries are named by their shortName)
LibrariesToInit(options) ==
  IF options.libs # Unset /\ ~options.all
  THEN Flatten([i \in 1..Len(options.libs) |->
         IF \E l \in Range(LIBRARIES) : l.shortName = options.libs[i]
         THEN <<LibOf(options.libs[i])>> ELSE <<>>])
  ELSE LIBRARIES

\* the repositories of a set of sources
Repos(libs, examples, episodes) ==
  {libs[i].name : i \in 1..Len(libs)}
    \cup (IF examples THEN {EXAMPLES_CONFIG.name} ELSE {})
    \cup (IF episodes THEN {EPISODES_CONFIG.name} ELSE {})

\* data/repos after the clone or pull phase of a command: the files of a
\* repository that was cloned or pulled are there, in a version of upstream; of a
\* repository whose clone failed, any part of the files can be there (git clone
\* leaves the directory when the checkout fails after the clone, and so does a
\* failing sparse-checkout set); other repositories are not read. The episode
\* repository of the commands' runs holds no playground
Checkouts(whole, partial) ==
  LET tracked == DiskFiles \ {EpP}
  IN {[f \in DiskFiles |-> IF f \in tracked /\ (f.repo \in whole \/ f \in P)
                            THEN CHOOSE v \in Versions(f) : TRUE ELSE Absent] :
        P \in SUBSET {f \in tracked : f.repo \in partial}}

\* the rows the index calls of a command write, in the order of the calls
SourceItems(libs, examples, episodes, dsk, withSource) ==
  Flatten([i \in 1..Len(libs) |-> LibraryItems(libs[i], dsk, {}, withSource)])
    \o (IF examples THEN ExampleItems(dsk, {}) ELSE <<>>)
    \o (IF episodes THEN EpisodeItems(dsk, {}) ELSE <<>>)

\* the largest rowid in the runs of the commands
MaxCmdId == 4

\* initCommand from "Build search index" on: openIndex, every index call in a
\* try/catch of its own (each throws at db.prepare on a store whose triggers do
\* not compile), closeIndex
InitRun(options, libs, examples, episodes, failed, dsk, withSource) ==
  LET st == OpenedFresh(Store)
      \* r: the store and the count the index calls leave
      Finish(r) ==
        /\ MaxRowId(r.store.docs) <= MaxCmdId
        /\ SetStore(r.store)
        /\ db' = "null"
        /\ last' = [op |-> "initCommand", options |-> options, failed |-> failed,
                    disk |-> dsk, threw |-> FALSE, ran |-> TRUE, count |-> r.indexed]
        /\ UNCHANGED code
  IN Finish(IF PrepareInsertFails(st) THEN [store |-> st, indexed |-> 0]
            ELSE RunInserts(st, SourceItems(libs, examples, episodes, dsk, withSource), 0))

\* initCommand(options); failed: the repositories whose clone throws
initCommand(options, failed, dsk) ==
  LET libs == LibrariesToInit(options)
  IN /\ code = "v2"
     /\ IF Len(libs) = 0 /\ ~options.examples /\ ~options.episodes
        THEN /\ db' = "null"
             /\ last' = [op |-> "initCommand", options |-> options, failed |-> failed,
                         disk |-> dsk, threw |-> FALSE, ran |-> FALSE, count |-> 0]
             /\ UNCHANGED <<code, docsSchema, ftsSchema, triggers, docs, fts>>
        ELSE InitRun(options, libs, options.examples, options.episodes, failed, dsk, TRUE)

\* initCommand of the earlier version (src/commands/init.ts): libraries only
initCommandV1(options, failed, dsk) ==
  LET libs == LibrariesToInit(options)
  IN /\ code = "v1"
     /\ IF Len(libs) = 0
        THEN /\ db' = "null"
             /\ last' = [op |-> "initCommand", options |-> options, failed |-> failed,
                         disk |-> dsk, threw |-> FALSE, ran |-> FALSE, count |-> 0]
             /\ UNCHANGED <<code, docsSchema, ftsSchema, triggers, docs, fts>>
        ELSE InitRun(options, libs, FALSE, FALSE, failed, dsk, FALSE)

\* librariesToUpdate of updateCommand; cloned: the repositories under data/repos
LibrariesToUpdate(options, cloned) ==
  LET named == IF options.libs = Unset THEN LIBRARIES
               ELSE LibrariesToInit([libs |-> options.libs, all |-> FALSE])
  IN SelectSeq(named, LAMBDA l : l.name \in cloned)

\* updateCommand(options); updated: the repositories whose pull brought changes.
\* The index calls are not in a try block: the first one that throws ends the
\* command in front of closeIndex()
updateCommand(options, cloned, updated, dsk) ==
  LET libs == LibrariesToUpdate(options, cloned)
      shouldUpdateExamples == options.examples /\ EXAMPLES_CONFIG.name \in cloned
      shouldUpdateEpisodes == options.episodes /\ EPISODES_CONFIG.name \in cloned
      updatedLibs == SelectSeq(libs, LAMBDA l : l.name \in updated)
      examplesUpdated == shouldUpdateExamples /\ EXAMPLES_CONFIG.name \in updated
      episodesUpdated == shouldUpdateEpisodes /\ EPISODES_CONFIG.name \in updated
      hasUpdates == Len(updatedLibs) > 0 \/ examplesUpdated \/ episodesUpdated
      st == OpenedFresh(Store)
      \* pulled: the repositories updateLibrary, updateExamples and updateEpisodes
      \* are called for
      call == [op |-> "updateCommand", options |-> options, cloned |-> cloned,
               updated |-> updated, disk |-> dsk, threw |-> FALSE, ran |-> FALSE,
               count |-> 0,
               pulled |-> IF Len(libs) = 0 /\ ~shouldUpdateExamples /\ ~shouldUpdateEpisodes
                          THEN {}
                          ELSE Repos(libs, shouldUpdateExamples, shouldUpdateEpisodes)]
      \* r: the store and the count the index calls leave
      Finish(r) ==
        /\ MaxRowId(r.store.docs) <= MaxCmdId
        /\ db' = "null"
        /\ SetStore(r.store)
        /\ last' = [call EXCEPT !.ran = TRUE, !.count = r.indexed]
  IN /\ code = "v2"
     /\ UNCHANGED code
     /\ IF (Len(libs) = 0 /\ ~shouldUpdateExamples /\ ~shouldUpdateEpisodes) \/ ~hasUpdates
        THEN /\ db' = "null"
             /\ last' = call
             /\ UNCHANGED <<docsSchema, ftsSchema, triggers, docs, fts>>
        ELSE IF PrepareInsertFails(st)
        THEN /\ db' = "open"
             /\ SetStore(st)
             /\ last' = [call EXCEPT !.threw = TRUE, !.ran = TRUE]
        ELSE Finish(RunInserts(st, SourceItems(updatedLibs, examplesUpdated,
                                               episodesUpdated, dsk, TRUE), 0))

\* parseInt(s, 10): white space, a sign, then the digits up to the first other
\* character; NaN (no match) when there is no digit
parseInt(s) ==
  LET t == TrimLeft(s)
      signed == t # <<>> /\ Head(t) \in {"-", "+"}
      u == IF signed THEN Tail(t) ELSE t
      d == SubSeq(u, 1, RunEnd(u, 1, Digit))
      digits == <<"0","1","2","3","4","5","6","7","8","9">>
      RECURSIVE Val(_)
      Val(q) == IF q = <<>> THEN 0
                ELSE 10 * Val(SubSeq(q, 1, Len(q) - 1))
                       + (CHOOSE k \in 0..9 : digits[k + 1] = q[Len(q)])
  IN IF d = <<>> THEN NoMatch
     ELSE Matched(IF signed /\ Head(t) = "-" THEN 0 - Val(d) ELSE Val(d))

\* A variant the claims are tried against: preview only on request
shouldPreviewOnRequest(doc, options) == options.preview

\* A variant the claims are tried against: the test of the path without the
\* episodes
isCodeFileExamplesOnly(path) == StartsWith(path, EXAMPLES \o SLASH)

\* isCodeFile(path) of the other version of commands/get.ts
isCodeFileByPath(path) ==
  StartsWith(path, EXAMPLES \o SLASH) \/ StartsWith(path, EPISODES \o SLASH)

\* isCodeFile(doc); a row of a store without the column has no source
isCodeFile(doc) == "source" \in DOMAIN doc /\ doc.source \in {EXAMPLES, EPISODES}

\* shouldPreview of getCommand: options.preview || (isCodeFile(doc) && !options.raw)
shouldPreview(doc, options) ==
  options.preview \/ (isCodeFile(doc) /\ ~options.raw)

\* getCommand(path, options): withIndex(() => getDoc(path)), then the output. The
\* output is recorded as the branch that printed it, the content it printed
\* (without the header lines) and whether a truncation note followed
getCommand(path, options) ==
  LET st == OpenedFresh(Store)
      \* doc: getDoc(path); n: previewLines (NoMatch stands for NaN)
      Output(doc, n) ==
        LET cut == shouldPreview(doc.val, options) /\ ~options.raw
            \* lines.length <= NaN is false and slice(0, NaN) is empty
            t == IF n.ok THEN truncateContent(doc.val.content, n.val)
                 ELSE [content |-> <<>>, truncated |-> TRUE,
                       totalLines |-> Len(SplitKeep(doc.val.content, NL, <<>>))]
            \* the output of a branch; shown and total: the numbers of the
            \* truncation note "showing ${previewLines} of ${totalLines} lines"
            Out(kind, content, truncated) ==
              [kind |-> kind, content |-> content, truncated |-> truncated,
               shown |-> IF truncated THEN n ELSE NoMatch,
               total |-> IF truncated THEN t.totalLines ELSE 0]
        IN IF ~doc.ok THEN Out("notfound", <<>>, FALSE)
           ELSE IF options.json
           THEN Out("json", IF cut THEN t.content ELSE doc.val.content, cut /\ t.truncated)
           ELSE IF options.raw THEN Out("raw", doc.val.content, FALSE)
           ELSE Out(IF doc.val.source \in {EXAMPLES, EPISODES} THEN "code" ELSE "doc",
                    IF cut THEN t.content ELSE doc.val.content, cut /\ t.truncated)
      Run(doc) ==
        last' = [op |-> "getCommand", path |-> path, options |-> options, threw |-> FALSE,
                 doc |-> doc,
                 output |-> Output(doc, IF options.lines # Unset /\ options.lines # <<>>
                                        THEN parseInt(options.lines)
                                        ELSE Matched(DEFAULT_PREVIEW_LINES))]
  IN /\ code = "v2"
     /\ SetStore(st)
     /\ db' = "null"
     /\ UNCHANGED code
     /\ Run(getDoc(st, path))

\* listCommand(lib, options): --available and an invalid source return before
\* the store is opened
listCommand(lib, options) ==
  LET st == OpenedFresh(Store)
      valid == options.source \in {Unset, <<>>, ALL} \cup Range(SOURCE_TYPES)
      call == [op |-> "listCommand", lib |-> lib, options |-> options, threw |-> FALSE,
               opened |-> FALSE, docs |-> <<>>,
               stats |-> [totalDocs |-> 0, byLibrary |-> <<>>, bySource |-> <<>>]]
  IN /\ code = "v2"
     /\ db' = "null"
     /\ UNCHANGED code
     /\ IF options.available \/ ~valid
        THEN /\ last' = call
             /\ UNCHANGED <<docsSchema, ftsSchema, triggers, docs, fts>>
        ELSE /\ SetStore(st)
             /\ last' = [call EXCEPT !.opened = TRUE,
                                     !.docs = listDocs(st, lib, options.source),
                                     !.stats = getStats(st)]

\* statsCommand(options): withIndex(() => getStats())
statsCommand ==
  LET st == OpenedFresh(Store)
  IN /\ code = "v2"
     /\ SetStore(st)
     /\ db' = "null"
     /\ UNCHANGED code
     /\ last' = [op |-> "statsCommand", threw |-> FALSE, stats |-> getStats(st)]

\* searchCommand(query, options): the limit parsed, the source validated, then
\* withIndex(() => search(query, { lib, limit, source }))
searchCommand(query, options) ==
  LET st == OpenedFresh(Store)
      n == IF options.limit # Unset /\ options.limit # <<>> THEN parseInt(options.limit)
           ELSE Matched(DEFAULT_LIMIT)
      valid == options.source \in {Unset, <<>>, ALL} \cup Range(SOURCE_TYPES)
      opts == [lib |-> options.lib, limit |-> IF n.ok THEN n.val ELSE NoLimit,
               source |-> EffSource(options.source)]
      r == searchRows(st, query, opts, FALSE, FALSE)
      call == [op |-> "searchCommand", query |-> query, options |-> options,
               threw |-> FALSE, opened |-> FALSE, results |-> {}]
  IN /\ code = "v2"
     /\ db' = "null"
     /\ UNCHANGED code
     /\ IF ~valid
        THEN /\ last' = call
             /\ UNCHANGED <<docsSchema, ftsSchema, triggers, docs, fts>>
        ELSE /\ SetStore(st)
             /\ \E R \in Limited(r.rows, EffLimit(opts.limit)) :
                   last' = [call EXCEPT !.opened = TRUE,
                              !.results = IF r.path = "ranked" THEN {RankedResult(x) : x \in R}
                                          ELSE {FallbackResult(x) : x \in R}]

\* the paths and options the get command is run with: a document of each
\* source, a path that differs from a stored one in case, a path of no document
GetPaths ==
  { TCA \o SLASH \o <<"A">>,
    TCA \o SLASH \o <<"a">>,
    EXAMPLES \o SLASH \o <<"T","o","d","o","s">> \o SLASH \o F_SWIFT,
    EPISODES \o SLASH \o EP_DIR \o SLASH \o F_SWIFT,
    BOGUS }
GetOptions ==
  [json : BOOLEAN, raw : BOOLEAN, preview : BOOLEAN,
   lines : {Unset, <<"5","0">>, <<"1">>, <<"0">>, <<"-","1">>, <<"x">>}]

\* the options and outcomes of git the commands are run with
InitOptions ==
  { [libs |-> Unset, all |-> FALSE, examples |-> FALSE, episodes |-> FALSE],
    [libs |-> <<TCA>>, all |-> FALSE, examples |-> TRUE, episodes |-> TRUE],
    [libs |-> <<BOGUS>>, all |-> FALSE, examples |-> FALSE, episodes |-> FALSE],
    [libs |-> <<BOGUS>>, all |-> TRUE, examples |-> FALSE, episodes |-> FALSE] }
UpdateOptions ==
  { [libs |-> Unset, examples |-> TRUE, episodes |-> TRUE],
    [libs |-> <<BOGUS>>, examples |-> FALSE, episodes |-> FALSE] }
\* A run is followed up to its first command that only reads the store (such a
\* command leaves the store as openIndex leaves it)
ReadCommands == {"getCommand", "listCommand", "statsCommand", "searchCommand"}

NextCommand ==
  \/ last.op \notin ReadCommands /\ Upgrade
  \/ /\ last.op \notin ReadCommands
     /\ \E o \in InitOptions :
          LET repos == Repos(LibrariesToInit(o), o.examples, o.episodes)
          IN \E failed \in {{}} \cup {{x} : x \in repos} :
               \E dsk \in Checkouts(repos \ failed, failed) : initCommand(o, failed, dsk)
  \/ /\ last.op \notin ReadCommands
     /\ \E o \in {x \in InitOptions : ~x.examples /\ ~x.episodes} :
          LET repos == Repos(LibrariesToInit(o), FALSE, FALSE)
          IN \E failed \in {{}} \cup {{x} : x \in repos} :
               \E dsk \in Checkouts(repos \ failed, failed) : initCommandV1(o, failed, dsk)
  \/ /\ last.op \notin ReadCommands
     /\ \E o \in UpdateOptions : \E cloned \in {{}, Repos(LIBRARIES, TRUE, TRUE)} :
          \E updated \in {{}, {LIBRARIES[1].name} \cap cloned, cloned} :
            \E dsk \in Checkouts(cloned, {}) : updateCommand(o, cloned, updated, dsk)
  \/ /\ last.op \notin ReadCommands
     /\ \E path \in GetPaths : \E o \in GetOptions :
          /\ getDoc(Store, path).ok \/ (~o.raw /\ ~o.preview /\ o.lines = Unset)
          /\ getCommand(path, o)
  \/ /\ last.op \notin ReadCommands
     /\ \E lib \in LibOptions :
          \E o \in [available : BOOLEAN, source : SourceOptions \cup {BOGUS}] :
            listCommand(lib, o)
  \/ last.op \notin ReadCommands /\ statsCommand
  \/ /\ last.op \notin ReadCommands
     /\ \E o \in [lib : {Unset}, limit : {Unset, <<"1">>}, source : {Unset, ALL, BOGUS}] :
          searchCommand(<<"x">>, o)

CommandSpec == Init /\ [][NextCommand]_vars

Commands == {"initCommand", "updateCommand", "searchCommand", "getCommand",
             "listCommand", "statsCommand"}

\* C16: when a command has ended, on any exit path (completion, early return, an
\* exception of an operation on the open store), the connection is closed and
\* the handle db is null.
C16_ClosedAfterCommand == last.op \in Commands => db = "null"

\* C16, its case: an index call of updateCommand threw
C16_UpdateThrew == last.op = "updateCommand" /\ last.threw /\ db = "open"

\* the library column of the rows of a repository
LibraryOfRepo(repo) ==
  IF repo = EXAMPLES_CONFIG.name THEN EXAMPLES
  ELSE IF repo = EPISODES_CONFIG.name THEN EPISODES
  ELSE (CHOOSE l \in Range(LIBRARIES) : l.name = repo).shortName

\* the files of a repository as its index call goes through them
RepoItems(repo, dsk) ==
  IF repo = EXAMPLES_CONFIG.name THEN ExampleItems(dsk, {})
  ELSE IF repo = EPISODES_CONFIG.name THEN EpisodeItems(dsk, {})
  ELSE LibraryItems(CHOOSE l \in Range(LIBRARIES) : l.name = repo, dsk, {}, TRUE)

\* C25: updateCommand pulls the sources it was asked for that are cloned, and
\* no other; the store is opened if and only if the pull of one of them
\* reported a change; every source whose pull reported a change has the rows of
\* all its files written anew, and the rows of every other source are the rows
\* it had
C25_UpdateReindexesChanged ==
  [][ last'.op = "updateCommand" =>
        LET c == last'
            o == c.options
            named == IF o.libs = Unset THEN {l.name : l \in Range(LIBRARIES)}
                     ELSE {l.name : l \in {x \in Range(LIBRARIES) :
                                             x.shortName \in Range(o.libs)}}
            asked == named \cup (IF o.examples THEN {EXAMPLES_CONFIG.name} ELSE {})
                           \cup (IF o.episodes THEN {EPISODES_CONFIG.name} ELSE {})
            changed == asked \cap c.cloned \cap c.updated
            IdsOf(rows, repo) == {r.id : r \in {x \in rows : x.library = LibraryOfRepo(repo)}}
        IN /\ c.pulled = asked \cap c.cloned
           /\ c.ran <=> changed # {}
           /\ \A repo \in changed :
                 LET items == RepoItems(repo, c.disk)
                 IN \A k \in DOMAIN items :
                       \E r \in docs' : NoId(r) = items[k].row /\ r.id > MaxRowId(docs)
           /\ \A repo \in Repos(LIBRARIES, TRUE, TRUE) \ changed :
                 IdsOf(docs', repo) = IdsOf(docs, repo)
    ]_vars

\* C25, its case: the pull of the library reported a change on a store of the
\* earlier schema; the first index call threw and no source was indexed again
C25_ChangedSourceNotIndexed ==
  /\ last.op = "updateCommand" /\ last.threw /\ last.ran
  /\ LIBRARIES[1].name \in last.pulled \cap last.updated
  /\ ftsSchema = "v1" /\ triggers = "v2"
  /\ \A r \in docs : r.id <= 2

\* C26: an initCommand of either version without libs, all, examples and
\* episodes prints the usage and returns: it does not get to the clone and index
\* phase, and the store is as it was
C26_NoSourceShowsUsage ==
  [][ (/\ last'.op = "initCommand"
       /\ last'.options.libs = Unset /\ ~last'.options.all
       /\ ~last'.options.examples /\ ~last'.options.episodes) =>
        ~last'.ran /\ Store' = Store
    ]_vars

\* C26, its case: the command without options cloned and indexed the libraries
C26_NoOptionIndexesLibraries ==
  /\ last.op = "initCommand" /\ last.ran
  /\ last.options.libs = Unset /\ ~last.options.all
  /\ ~last.options.examples /\ ~last.options.episodes
  /\ last.failed = {} /\ last.count = 2
  /\ \E r \in docs : r.library = TCA

\* C18: an initCommand in which the clone of one source fails still indexes
\* every other requested source (the rows of all their files are in docs
\* afterwards), and adds no document of the failed source: no key of that source
\* is in docs that was not there before.
C18_FailedCloneAddsNothing ==
  [][(code = "v2" /\ last'.op = "initCommand" /\ last'.ran /\ last'.failed # {}
        /\ ftsSchema' = "v2") =>
      LET o == last'.options
          others == [f \in DiskFiles |-> IF f.repo \in last'.failed THEN Absent
                                           ELSE last'.disk[f]]
          items == SourceItems(LibrariesToInit(o), o.examples, o.episodes, others, TRUE)
      IN /\ \A k \in DOMAIN items : \E r \in docs' : NoId(r) = items[k].row
         /\ Keys({r \in docs' : r.library \in {LibraryOfRepo(x) : x \in last'.failed}})
               \subseteq Keys(docs)]_vars

\* C18, its case: the clone of the episodes failed after git had checked out
\* a file; the library and the examples are indexed, and so is the episode file
C18_FailedSourceIndexed ==
  /\ code = "v2" /\ last.op = "initCommand" /\ last.ran
  /\ last.failed = {EPISODES_CONFIG.name} /\ last.disk[EpF] # Absent
  /\ last.count = 4
  /\ \E r \in docs : r.library = EPISODES
  /\ \E r \in docs : r.library = TCA
  /\ \E r \in docs : r.library = EXAMPLES

-----------------------------------------------------------------------------
(* the claims about the read functions and the get command, over CommandSpec *)

\* C11: getDoc(p) gives the full document (library, path, title, content,
\* source) of a row whose path is exactly p when there is one, and the not-found
\* value, without raising, when there is none; the get command then prints
\* not-found and returns normally.
C11_GetDocExactOrNotFound ==
  last.op = "getCommand" =>
     /\ ~last.threw
     /\ (\E r \in docs : r.path = last.path) =>
           /\ last.doc.ok
           /\ last.doc.val.path = last.path
           /\ DOMAIN last.doc.val = {"library", "path", "title", "content", "source"}
           /\ \E r \in docs : NoId(r) = last.doc.val
           /\ last.output.kind # "notfound"
     /\ (\A r \in docs : r.path # last.path) =>
           ~last.doc.ok /\ last.output.kind = "notfound"

\* C11, its case: tca/A is stored and the get command was asked for tca/a
C11_CaseVariantNotFound ==
  /\ last.op = "getCommand" /\ last.path = TCA \o SLASH \o <<"a">>
  /\ \E r \in docs : r.path = TCA \o SLASH \o <<"A">>
  /\ last.output.kind = "notfound" /\ db = "null"

\* C12: listDocs(lib, source) gives exactly the rows of the library filter (when
\* given) and of the source filter (when given and not all), each as (library,
\* path, title, source), in the order of source, then library, then path.
C12_ListDocsFilteredSorted ==
  (last.op = "listCommand" /\ last.opened) =>
     LET src == last.options.source
         rows == {r \in docs : /\ (last.lib \notin {Unset, <<>>} => r.library = last.lib)
                               /\ (src \notin {Unset, <<>>, ALL} => r.source = src)}
         L == last.docs
     IN /\ Range(L) = {[library |-> r.library, path |-> r.path, title |-> r.title,
                        source |-> r.source] : r \in rows}
        /\ Len(L) = Cardinality(rows)
        /\ \A i, j \in DOMAIN L : i < j =>
              \/ TextLess(L[i].source, L[j].source)
              \/ L[i].source = L[j].source /\ TextLess(L[i].library, L[j].library)
              \/ /\ L[i].source = L[j].source /\ L[i].library = L[j].library
                 /\ TextLess(L[i].path, L[j].path)

\* C12, its case: the list of all sources, with two documents of a library, an
\* example and an episode
C12_FourListed ==
  /\ last.op = "listCommand" /\ last.opened
  /\ last.lib = Unset /\ last.options.source = ALL
  /\ Len(last.docs) = 4
  /\ last.docs[1].source = DOCS /\ last.docs[2].path = TCA \o SLASH \o <<"B">>
  /\ last.docs[3].source = EPISODES /\ last.docs[4].source = EXAMPLES

\* the sum of the values of a function to the naturals
RECURSIVE SumOf(_)
SumOf(f) ==
  IF DOMAIN f = {} THEN 0
  ELSE LET x == CHOOSE y \in DOMAIN f : TRUE
       IN f[x] + SumOf([y \in DOMAIN f \ {x} |-> f[y]])

\* C13: getStats gives totalDocs = the number of rows, byLibrary[l] = the number
\* of rows of library l, bySource[s] = the number of rows of source s; the
\* values of byLibrary and those of bySource each sum to totalDocs.
C13_StatsCountRows ==
  last.op = "statsCommand" =>
     LET st == last.stats
     IN /\ st.totalDocs = Cardinality(docs)
        /\ DOMAIN st.byLibrary = {r.library : r \in docs}
        /\ DOMAIN st.bySource = {r.source : r \in docs}
        /\ \A l \in DOMAIN st.byLibrary :
              st.byLibrary[l] = Cardinality({r \in docs : r.library = l})
        /\ \A x \in DOMAIN st.bySource :
              st.bySource[x] = Cardinality({r \in docs : r.source = x})
        /\ SumOf(st.byLibrary) = st.totalDocs
        /\ SumOf(st.bySource) = st.totalDocs

\* C13, its case: statistics of a store that was indexed twice, with index
\* entries of rows that are gone
C13_StatsAfterReindex ==
  /\ last.op = "statsCommand"
  /\ last.stats.totalDocs = 2 /\ Cardinality(fts) = 4
  /\ DOMAIN last.stats.byLibrary = {TCA} /\ last.stats.byLibrary[TCA] = 2
  /\ last.stats.bySource[DOCS] = 2

\* the limit of a get command: the number given, 50 when none is given
LimitOf(lines) == IF lines = Unset THEN DEFAULT_PREVIEW_LINES ELSE parseInt(lines).val

\* the option gives no limit, or a limit that is a number of lines (one or more)
IsLineCount(lines) == lines = Unset \/ (parseInt(lines).ok /\ parseInt(lines).val >= 1)

\* out is content cut to n lines
CutTo(out, n, content) ==
  IF LineCount(content) <= n THEN out.content = content /\ ~out.truncated
  ELSE IsFirstLines(out.content, n, content) /\ out.truncated

\* C15: the get command prints a documentation document in full unless preview
\* is asked for, prints an example or episode document cut to 50 lines or to
\* the line limit given (a number of lines, one or more), and prints the whole
\* content whenever raw is asked for, whatever the preview and line-limit
\* options are.
C15_GetPreviewAndRaw ==
  (last.op = "getCommand" /\ last.doc.ok) =>
     LET o == last.options
         d == last.doc.val
     IN /\ o.raw => last.output.content = d.content /\ ~last.output.truncated
        /\ (~o.raw /\ d.source = DOCS /\ ~o.preview) =>
              last.output.content = d.content /\ ~last.output.truncated
        /\ (~o.raw /\ d.source = DOCS /\ o.preview /\ IsLineCount(o.lines)) =>
              CutTo(last.output, LimitOf(o.lines), d.content)
        /\ (~o.raw /\ d.source \in {EXAMPLES, EPISODES} /\ IsLineCount(o.lines)) =>
              CutTo(last.output, LimitOf(o.lines), d.content)

\* C15, its case: an episode file of 51 lines printed without options, cut to
\* the default of 50 lines
C15_EpisodeCutToDefault ==
  /\ last.op = "getCommand" /\ last.doc.ok
  /\ last.doc.val.source = EPISODES
  /\ ~last.options.raw /\ ~last.options.preview /\ last.options.lines = Unset
  /\ LineCount(last.doc.val.content) = 51
  /\ LineCount(last.output.content) = 50 /\ last.output.truncated

\* C28: whatever --lines gives (a positive number, zero, a negative number,
\* text that is no number), when the output of the get command is marked as
\* truncated, the number the note gives as shown is the number of lines that
\* were output, the output is that many first lines of the content, and the
\* number is smaller than the total the note gives, which is the number of
\* lines of the content
C28_NoteMatchesOutput ==
  (last.op = "getCommand" /\ last.doc.ok /\ last.output.truncated) =>
     LET out == last.output
         lines == SplitKeep(last.doc.val.content, NL, <<>>)
     IN /\ out.shown.ok /\ out.shown.val >= 0
        /\ out.content = Join(SubSeq(lines, 1, out.shown.val), <<NL>>)
        /\ out.total = Len(lines)
        /\ out.shown.val < out.total

\* C28, its case: --lines=-1 on the episode file of 51 lines; 50 lines are
\* output and the note says "showing -1 of 51 lines"
C28_NegativeLimitShown ==
  /\ last.op = "getCommand" /\ last.doc.ok /\ last.output.truncated
  /\ last.options.lines = <<"-", "1">>
  /\ last.output.shown = Matched(0 - 1) /\ last.output.total = 51
  /\ LineCount(last.output.content) = 50

\* C29: for every row of the store, the path begins with "examples/" or
\* "episodes/" exactly when the source is examples or episodes; the get command
\* takes the same documents for code under the test of the source and under
\* the test of the path
C29_CodeFileTestsAgree ==
  /\ \A r \in docs : isCodeFile(r) <=> isCodeFileByPath(r.path)
  /\ (last.op = "getCommand" /\ last.doc.ok) =>
        (isCodeFile(last.doc.val) <=> isCodeFileByPath(last.doc.val.path))

\* C29, its case: the get command found an episode document on a store that
\* holds a library, an example and an episode document
C29_GetOfEpisode ==
  /\ last.op = "getCommand" /\ last.doc.ok
  /\ isCodeFile(last.doc.val) /\ isCodeFileByPath(last.doc.val.path)
  /\ last.doc.val.source = EPISODES
  /\ \E r \in docs : r.source = DOCS /\ ~isCodeFileByPath(r.path)
  /\ \E r \in docs : r.source = EXAMPLES /\ isCodeFileByPath(r.path)

====
